---- MODULE Spec2Model ----
(***************************************************************************)
(* Inventory application: the spreadsheet import route                      *)
(* (src/app/api/inventory/import/route.ts), the item routes                 *)
(* (POST /api/inventory, PUT and DELETE /api/inventory/[id]), the store    *)
(* they share, and the inventory page (src/app/page.tsx): its cached list,  *)
(* filters, sorting, pagination, selection, the inline quantity cell and    *)
(* the bulk status update.                                                  *)
(*                                                                          *)
(* JavaScript values are records [t, n, s]: t is the type tag, n the        *)
(* numeric payload and s the string payload (a sequence of one-character    *)
(* strings, so that trimming, lowercasing and parsing are computed).        *)
(* Numbers are fixed point, in hundredths (Scale): 19.99 is 1999.           *)
(* Dates are seconds since 1970-01-01T00:00:00Z.                            *)
(***************************************************************************)
EXTENDS Integers, Sequences, FiniteSets, TLC

\* ------------------------------------------------------------------------
\* JavaScript values
\* ------------------------------------------------------------------------

Scale == 100

Undefined == [t |-> "undefined", n |-> 0, s |-> <<>>]

Null == [t |-> "null", n |-> 0, s |-> <<>>]

NaN == [t |-> "nan", n |-> 0, s |-> <<>>]

InvalidDate == [t |-> "invaliddate", n |-> 0, s |-> <<>>]

Num(m) == [t |-> "number", n |-> m, s |-> <<>>]

Str(chars) == [t |-> "string", n |-> 0, s |-> chars]

DateV(secs) == [t |-> "date", n |-> secs, s |-> <<>>]

\* x in a boolean context: undefined, null, NaN, 0 and "" are falsy.
Truthy(v) ==
  CASE v.t = "undefined" -> FALSE
    [] v.t = "null" -> FALSE
    [] v.t = "nan" -> FALSE
    [] v.t = "number" -> v.n # 0
    [] v.t = "string" -> v.s # <<>>
    [] OTHER -> TRUE

\* a || b
Or(a, b) == IF Truthy(a) THEN a ELSE b

\* ------------------------------------------------------------------------
\* Characters and strings
\* ------------------------------------------------------------------------

UpperChars ==
  <<"A","B","C","D","E","F","G","H","I","J","K","L","M",
    "N","O","P","Q","R","S","T","U","V","W","X","Y","Z">>

LowerChars ==
  <<"a","b","c","d","e","f","g","h","i","j","k","l","m",
    "n","o","p","q","r","s","t","u","v","w","x","y","z">>

DigitChars == <<"0","1","2","3","4","5","6","7","8","9">>

UpperSet == {UpperChars[i] : i \in 1..26}

DigitSet == {DigitChars[i] : i \in 1..10}

LowerOf == [c \in UpperSet |-> LowerChars[CHOOSE i \in 1..26 : UpperChars[i] = c]]

DigitOf == [c \in DigitSet |-> (CHOOSE i \in 1..10 : DigitChars[i] = c) - 1]

IsUpper(c) == c \in UpperSet

IsDigit(c) == c \in DigitSet

IsSpace(c) == c \in {" ", "\t", "\n", "\r"}

DigitVal(c) == DigitOf[c]

LowerChar(c) == IF IsUpper(c) THEN LowerOf[c] ELSE c

\* String.prototype.toLowerCase
RECURSIVE toLowerCase(_)
toLowerCase(str) ==
  IF str = <<>> THEN <<>>
  ELSE <<LowerChar(Head(str))>> \o toLowerCase(Tail(str))

RECURSIVE TrimStart(_)
TrimStart(str) ==
  IF str # <<>> /\ IsSpace(Head(str)) THEN TrimStart(Tail(str)) ELSE str

RECURSIVE TrimEnd(_)
TrimEnd(str) ==
  IF str # <<>> /\ IsSpace(str[Len(str)])
    THEN TrimEnd(SubSeq(str, 1, Len(str) - 1))
    ELSE str

\* String.prototype.trim
trim(str) == TrimEnd(TrimStart(str))

\* the longest prefix of decimal digits
RECURSIVE TakeDigits(_)
TakeDigits(str) ==
  IF str # <<>> /\ IsDigit(Head(str))
    THEN <<Head(str)>> \o TakeDigits(Tail(str))
    ELSE <<>>

RECURSIVE DigitsValue(_)
DigitsValue(ds) ==
  IF ds = <<>> THEN 0
  ELSE DigitsValue(SubSeq(ds, 1, Len(ds) - 1)) * 10 + DigitVal(ds[Len(ds)])

RECURSIVE IntDigits(_)
IntDigits(k) ==
  IF k < 10 THEN <<DigitChars[k + 1]>>
  ELSE Append(IntDigits(k \div 10), DigitChars[(k % 10) + 1])

Abs(k) == IF k < 0 THEN -k ELSE k

\* Number.prototype.toString of a finite number held in hundredths
NumberToString(m) ==
  LET a == Abs(m)
      ip == a \div Scale
      fp == a % Scale
      frac == IF fp = 0 THEN <<>>
              ELSE IF fp % 10 = 0 THEN <<".", DigitChars[(fp \div 10) + 1]>>
              ELSE <<".", DigitChars[(fp \div 10) + 1], DigitChars[(fp % 10) + 1]>>
  IN (IF m < 0 THEN <<"-">> ELSE <<>>) \o IntDigits(ip) \o frac

\* String(x)
String(v) ==
  CASE v.t = "undefined" -> <<"u","n","d","e","f","i","n","e","d">>
    [] v.t = "null" -> <<"n","u","l","l">>
    [] v.t = "nan" -> <<"N","a","N">>
    [] v.t = "number" -> NumberToString(v.n)
    [] OTHER -> v.s

\* the sign prefix of a numeric literal: <<sign, rest>>
SignSplit(str) ==
  IF str # <<>> /\ Head(str) = "-" THEN <<-1, Tail(str)>>
  ELSE IF str # <<>> /\ Head(str) = "+" THEN <<1, Tail(str)>>
  ELSE <<1, str>>

\* parseInt(str) in radix 10: leading white space, a sign, then the longest
\* run of digits; NaN when there is no digit.
parseInt(str) ==
  LET sp == SignSplit(TrimStart(str))
      ds == TakeDigits(sp[2])
  IN IF ds = <<>> THEN NaN ELSE Num(sp[1] * DigitsValue(ds) * Scale)

\* the first two fraction digits, as hundredths
FracValue(fs) ==
  IF fs = <<>> THEN 0
  ELSE IF Len(fs) = 1 THEN DigitVal(fs[1]) * 10
  ELSE DigitVal(fs[1]) * 10 + DigitVal(fs[2])

\* parseFloat(str): leading white space, a sign, digits, an optional
\* fraction; NaN when there is no digit at all.
parseFloat(str) ==
  LET sp == SignSplit(TrimStart(str))
      ds == TakeDigits(sp[2])
      after == SubSeq(sp[2], Len(ds) + 1, Len(sp[2]))
      fs == IF after # <<>> /\ Head(after) = "." THEN TakeDigits(Tail(after)) ELSE <<>>
  IN IF ds = <<>> /\ fs = <<>> THEN NaN
     ELSE Num(sp[1] * (DigitsValue(ds) * Scale + FracValue(fs)))

\* Number(x): the whole trimmed string must be a numeric literal; "" is 0.
Number(v) ==
  CASE v.t = "number" -> v
    [] v.t = "null" -> Num(0)
    [] v.t = "string" ->
         LET str == trim(v.s)
             sp == SignSplit(str)
             ds == TakeDigits(sp[2])
             after == SubSeq(sp[2], Len(ds) + 1, Len(sp[2]))
             fs == IF after # <<>> /\ Head(after) = "." THEN TakeDigits(Tail(after)) ELSE <<>>
             used == Len(ds) + (IF after # <<>> /\ Head(after) = "." THEN 1 + Len(fs) ELSE 0)
         IN IF str = <<>> THEN Num(0)
            ELSE IF (ds = <<>> /\ fs = <<>>) \/ used # Len(sp[2]) THEN NaN
            ELSE Num(sp[1] * (DigitsValue(ds) * Scale + FracValue(fs)))
    [] OTHER -> NaN

\* ------------------------------------------------------------------------
\* Dates
\* ------------------------------------------------------------------------

SecondsPerDay == 86400

ExcelEpochOffset == 25569

IsLeap(y) == (y % 4 = 0 /\ y % 100 # 0) \/ y % 400 = 0

DaysInMonth(y, m) ==
  IF m = 2 THEN (IF IsLeap(y) THEN 29 ELSE 28)
  ELSE IF m \in {4, 6, 9, 11} THEN 30 ELSE 31

\* days from 1970-01-01 to the civil date y-m-d (proleptic Gregorian)
DaysFromCivil(y, m, d) ==
  LET yy == IF m <= 2 THEN y - 1 ELSE y
      era == yy \div 400
      yoe == yy - era * 400
      mp == IF m > 2 THEN m - 3 ELSE m + 9
      doy == (153 * mp + 2) \div 5 + d - 1
      doe == yoe * 365 + yoe \div 4 - yoe \div 100 + doy
  IN era * 146097 + doe - 719468

\* the civil date, as <<y, m, d>>, of the day that many days from 1970-01-01
CivilFromDays(days) ==
  LET z == days + 719468
      era == z \div 146097
      doe == z - era * 146097
      yoe == (doe - doe \div 1460 + doe \div 36524 - doe \div 146096) \div 365
      doy == doe - (365 * yoe + yoe \div 4 - yoe \div 100)
      mp == (5 * doy + 2) \div 153
      d == doy - (153 * mp + 2) \div 5 + 1
      m == IF mp < 10 THEN mp + 3 ELSE mp - 9
  IN <<yoe + era * 400 + (IF m <= 2 THEN 1 ELSE 0), m, d>>

\* String(k).padStart(width, "0")
RECURSIVE PadStart(_, _)
PadStart(str, width) == IF Len(str) >= width THEN str ELSE PadStart(<<"0">> \o str, width)

\* Date.prototype.toISOString of a date of a four-digit year:
\* YYYY-MM-DDTHH:mm:ss.sssZ
toISOString(secs) ==
  LET ymd == CivilFromDays(secs \div SecondsPerDay)
      rest == secs % SecondsPerDay
  IN PadStart(IntDigits(ymd[1]), 4) \o <<"-">> \o PadStart(IntDigits(ymd[2]), 2)
       \o <<"-">> \o PadStart(IntDigits(ymd[3]), 2)
       \o <<"T">> \o PadStart(IntDigits(rest \div 3600), 2)
       \o <<":">> \o PadStart(IntDigits((rest % 3600) \div 60), 2)
       \o <<":">> \o PadStart(IntDigits(rest % 60), 2)
       \o <<".", "0", "0", "0", "Z">>

\* new Date(str) for a string: the date-only form YYYY-MM-DD is UTC midnight
\* of that day, the date-time form YYYY-MM-DDTHH:mm:ss.sssZ is that instant
\* (to the second); a string of any other shape is an Invalid Date.
DateFromString(str) ==
  LET dateShaped == /\ Len(str) >= 10
                    /\ str[5] = "-" /\ str[8] = "-"
                    /\ \A i \in {1, 2, 3, 4, 6, 7, 9, 10} : IsDigit(str[i])
      timeShaped == /\ Len(str) = 24
                    /\ str[11] = "T" /\ str[14] = ":" /\ str[17] = ":"
                    /\ str[20] = "." /\ str[24] = "Z"
                    /\ \A i \in {12, 13, 15, 16, 18, 19, 21, 22, 23} : IsDigit(str[i])
      y == DigitsValue(SubSeq(str, 1, 4))
      m == DigitsValue(SubSeq(str, 6, 7))
      d == DigitsValue(SubSeq(str, 9, 10))
      hh == DigitsValue(SubSeq(str, 12, 13))
      mm == DigitsValue(SubSeq(str, 15, 16))
      ss == DigitsValue(SubSeq(str, 18, 19))
  IN IF dateShaped /\ m \in 1..12 /\ d \in 1..DaysInMonth(y, m)
       THEN IF Len(str) = 10
              THEN DateV(DaysFromCivil(y, m, d) * SecondsPerDay)
            ELSE IF timeShaped /\ hh < 24 /\ mm < 60 /\ ss < 60
              THEN DateV(DaysFromCivil(y, m, d) * SecondsPerDay + hh * 3600 + mm * 60 + ss)
            ELSE InvalidDate
       ELSE InvalidDate

\* the serial counted from a day later
DateFromSerial_DayOff(m) ==
  DateV((m - (ExcelEpochOffset - 1) * Scale) * (SecondsPerDay \div Scale))

\* new Date(Math.round((serial - 25569)*86400*1000)) for a serial held in
\* hundredths of a day; a hundredth of a day is 864 s, so the rounding to
\* milliseconds is exact.
DateFromSerial(m) ==
  DateV((m - ExcelEpochOffset * Scale) * (SecondsPerDay \div Scale))

\* expiryDate && !isNaN(expiryDate.getTime())
ValidDate(d) == d.t = "date"

\* ------------------------------------------------------------------------
\* Rows of the sheet and header resolution
\* ------------------------------------------------------------------------
\* A row is the sequence of its <<header, cell>> properties in key order.

\* row[key]
RowGet(row, key) ==
  IF key.t = "string" /\ \E i \in 1..Len(row) : row[i].k = key.s
    THEN row[CHOOSE i \in 1..Len(row) : row[i].k = key.s /\ \A j \in 1..(i - 1) : row[j].k # key.s].v
    ELSE Undefined

\* the header found only when it is the key as it is spelled
getKey_Exact(row, key) ==
  LET hits == {i \in 1..Len(row) : row[i].k = key}
  IN IF hits = {} THEN Undefined
     ELSE Str(row[CHOOSE i \in hits : \A j \in hits : i <= j].k)

\* Object.keys(row).find(k => k.toLowerCase().trim() === key.toLowerCase().trim())
getKey(row, key) ==
  LET want == trim(toLowerCase(key))
      hits == {i \in 1..Len(row) : trim(toLowerCase(row[i].k)) = want}
  IN IF hits = {} THEN Undefined
     ELSE Str(row[CHOOSE i \in hits : \A j \in hits : i <= j].k)

ItemNameAliases == << <<"i","t","e","m"," ","n","a","m","e">>, <<"i","t","e","m","n","a","m","e">> >>

SellingPriceAliases == << <<"s","e","l","l","i","n","g"," ","p","r","i","c","e">>, <<"p","r","i","c","e">> >>

CurrentQuantityAliases ==
  << <<"c","u","r","r","e","n","t"," ","q","u","a","n","t","i","t","y">>,
     <<"c","u","r","r","e","n","t"," ","q","t","y">>,
     <<"q","u","a","n","t","i","t","y">> >>

UnitTypeAliases == << <<"u","n","i","t"," ","t","y","p","e">>, <<"u","n","i","t">> >>

ExpiryDateAliases == << <<"e","x","p","i","r","y"," ","d","a","t","e">>, <<"e","x","p","i","r","y">> >>

StatusAliases == << <<"s","t","a","t","u","s">> >>

\* the aliases tried from the last to the first
RECURSIVE ResolveKey_LastAlias(_, _)
ResolveKey_LastAlias(row, aliases) ==
  IF aliases = <<>> THEN Str(<<>>)
  ELSE Or(ResolveKey_LastAlias(row, Tail(aliases)), getKey(row, Head(aliases)))

\* getKey(a1) || getKey(a2) || ... || ''
RECURSIVE ResolveKey(_, _)
ResolveKey(row, aliases) ==
  IF aliases = <<>> THEN Str(<<>>)
  ELSE Or(getKey(row, Head(aliases)), ResolveKey(row, Tail(aliases)))

\* row[getKey(a1) || getKey(a2) || '']
Cell(row, aliases) == RowGet(row, ResolveKey(row, aliases))

itemNameOf(row) == Cell(row, ItemNameAliases)

sellingPriceRaw(row) == Cell(row, SellingPriceAliases)

currentQuantityRaw(row) == Cell(row, CurrentQuantityAliases)

unitTypeOf(row) == Cell(row, UnitTypeAliases)

expiryDateRaw(row) == Cell(row, ExpiryDateAliases)

statusRaw(row) == Cell(row, StatusAliases)

\* no row is skipped
SkipRow_Never(row) == FALSE

\* if (!itemName) continue
SkipRow(row) == ~Truthy(itemNameOf(row))

\* parseFloat(String(sellingPriceRaw)) || 0, in hundredths
sellingPriceOf(row) == Or(parseFloat(String(sellingPriceRaw(row))), Num(0)).n

\* parseInt(String(currentQuantityRaw)) || 0, in units
currentQuantityOf(row) == Or(parseInt(String(currentQuantityRaw(row))), Num(0)).n \div Scale

DefaultStatus == <<"n","o","t"," ","y","e","t">>

\* String(statusRaw || 'not yet')
statusOf(row) == String(Or(statusRaw(row), Str(DefaultStatus)))

\* the expiryDate local: null, a Date, or an Invalid Date
expiryDateOf(row) ==
  LET raw == expiryDateRaw(row)
  IN IF ~Truthy(raw) THEN Null
     ELSE IF raw.t = "number" THEN DateFromSerial(raw.n)
     ELSE DateFromString(String(raw))

\* ------------------------------------------------------------------------
\* The store (prisma.inventoryItem)
\* ------------------------------------------------------------------------
\* A record is [id, itemName, sellingPrice, currentQuantity, unitType,
\* expiryDate, status]; unitType and expiryDate are nullable.

NoItem == [id |-> 0]

\* the records whose name is the given one up to letter case
FindMatches_IgnoreCase(st, name) ==
  {r \in st : toLowerCase(r.itemName) = toLowerCase(name)}

\* findFirst({ where: { itemName } }): the records with exactly that name;
\* no orderBy is given, so which of several is returned is the store's choice.
FindMatches(st, name) == {r \in st : r.itemName = name}

HasId(st, id) == \E r \in st : r.id = id

\* the record with the given id
Stored(st, id) == CHOOSE r \in st : r.id = id

\* the import's quantity added to the stored one
newQuantity_Add(row, existing) == existing.currentQuantity + currentQuantityOf(row)

\* the import's quantity written even when it is 0
newQuantity_Overwrite(row, existing) == currentQuantityOf(row)

\* lines 90-93: the import's quantity, unless it is 0
newQuantity(row, existing) ==
  IF currentQuantityOf(row) = 0 THEN existing.currentQuantity
  ELSE currentQuantityOf(row)

\* the status replaced whenever the row has a status cell
newStatus_WhenPresent(row, existing) ==
  toLowerCase(IF statusRaw(row).t # "undefined" THEN String(statusRaw(row)) ELSE existing.status)

\* lines 95 and 105: statusRaw ? String(statusRaw) : existingItem.status,
\* lowercased
newStatus(row, existing) ==
  toLowerCase(IF Truthy(statusRaw(row)) THEN String(statusRaw(row)) ELSE existing.status)

\* the price kept when the import's is 0
updateSellingPrice_KeepOnZero(row, existing) ==
  IF sellingPriceOf(row) = 0 THEN existing.sellingPrice ELSE sellingPriceOf(row)

\* line 100: sellingPrice
updateSellingPrice(row, existing) == sellingPriceOf(row)

\* the unit type emptied when the import has none
updateUnitType_NoFallback(row, existing) ==
  Str(String(Or(unitTypeOf(row), Str(<<>>))))

\* line 102: String(unitType || existingItem.unitType || '')
updateUnitType(row, existing) ==
  Str(String(Or(Or(unitTypeOf(row), existing.unitType), Str(<<>>))))

\* the expiry date cleared when the import has no valid one
updateExpiryDate_Clear(row, existing) ==
  IF ValidDate(expiryDateOf(row)) THEN expiryDateOf(row) ELSE Null

\* line 104: expiryDate && !isNaN(expiryDate.getTime()) ? expiryDate : existingItem.expiryDate
updateExpiryDate(row, existing) ==
  IF ValidDate(expiryDateOf(row)) THEN expiryDateOf(row) ELSE existing.expiryDate

\* data of the import's update (route.ts lines 97-107); itemName is not in
\* the data and stays
ImportUpdateData(row, existing, old) ==
  [id |-> old.id,
   itemName |-> old.itemName,
   sellingPrice |-> updateSellingPrice(row, existing),
   currentQuantity |-> newQuantity(row, existing),
   unitType |-> updateUnitType(row, existing),
   expiryDate |-> updateExpiryDate(row, existing),
   status |-> newStatus(row, existing)]

\* the create that stores the status as the sheet spells it
ImportCreateData_StatusAsGiven(row, newId) ==
  LET exp == expiryDateOf(row)
  IN [id |-> newId,
      itemName |-> String(itemNameOf(row)),
      sellingPrice |-> sellingPriceOf(row),
      currentQuantity |-> currentQuantityOf(row),
      unitType |-> Str(String(Or(unitTypeOf(row), Str(<<>>)))),
      expiryDate |-> IF ValidDate(exp) THEN exp ELSE Null,
      status |-> statusOf(row)]

\* data of the import's create (route.ts lines 111-120)
ImportCreateData(row, newId) ==
  LET exp == expiryDateOf(row)
  IN [id |-> newId,
      itemName |-> String(itemNameOf(row)),
      sellingPrice |-> sellingPriceOf(row),
      currentQuantity |-> currentQuantityOf(row),
      unitType |-> Str(String(Or(unitTypeOf(row), Str(<<>>)))),
      expiryDate |-> IF ValidDate(exp) THEN exp ELSE Null,
      status |-> toLowerCase(String(Str(statusOf(row))))]

\* ------------------------------------------------------------------------
\* Inputs
\* ------------------------------------------------------------------------

MaxRows == 2

MaxExt == 1

NameA == <<"A">>

NameLowerA == <<"a">>

NameB == <<"B">>

NameC == <<"C">>

H(header, cell) == [k |-> header, v |-> cell]

HItemName == <<"I","t","e","m"," ","N","a","m","e">>

HItemNamePadded == <<" ","I","T","E","M","N","A","M","E"," ">>

HName == <<"N","a","m","e">>

HSellingPrice == <<"S","e","l","l","i","n","g"," ","P","r","i","c","e">>

HPrice == <<"P","R","I","C","E">>

HCurrentQuantity == <<"C","u","r","r","e","n","t"," ","Q","u","a","n","t","i","t","y">>

HCurrentQty == <<"c","u","r","r","e","n","t"," ","q","t","y">>

HQuantity == <<"Q","u","a","n","t","i","t","y"," ">>

HUnitType == <<"U","n","i","t"," ","T","y","p","e">>

HUnit == <<"u","n","i","t">>

HExpiryDate == <<"E","x","p","i","r","y"," ","D","a","t","e">>

HExpiry == <<"E","X","P","I","R","Y">>

HStatus == <<"S","t","a","t","u","s">>

\* every field present and usable; the name matches record 1
RowFull ==
  << H(HItemName, Str(NameA)),
     H(HSellingPrice, Str(<<"1","2",".","5">>)),
     H(HCurrentQuantity, Num(12 * Scale)),
     H(HUnitType, Str(<<"p","c","s">>)),
     H(HExpiryDate, Num(45000 * Scale)),
     H(HStatus, Str(<<"U","p","d","a","t","e","d">>)) >>

\* every field present but falsy or unparsable; the name matches record 1
RowFalsy ==
  << H(HItemNamePadded, Str(NameA)),
     H(HPrice, Str(<<"a","b","c">>)),
     H(HQuantity, Num(0)),
     H(HUnit, Num(0)),
     H(HExpiry, Str(<<"n","/","a">>)),
     H(HStatus, Num(0)) >>

\* only a name (record 2), a zero date serial and an empty status cell
RowBare ==
  << H(HItemName, Str(NameB)),
     H(HExpiry, Num(0)),
     H(HStatus, Str(<<>>)) >>

\* a negative quantity, a numeric price, a date string
RowNegative ==
  << H(HItemName, Str(NameB)),
     H(HPrice, Num(1999)),
     H(HCurrentQty, Str(<<"-","5">>)),
     H(HUnit, Str(<<>>)),
     H(HExpiry, Str(<<"2","0","2","6","-","0","3","-","0","1">>)) >>

\* no header is an item-name alias
RowNoNameHeader ==
  << H(HName, Str(NameA)), H(HPrice, Num(300)) >>

\* the item-name cell is the empty string
RowEmptyName ==
  << H(HItemName, Str(<<>>)), H(HPrice, Num(300)) >>

\* the item-name cell is the number 0
RowZeroName ==
  << H(HItemName, Num(0)), H(HQuantity, Num(4 * Scale)) >>

\* a name no record has, numeric strings, no status
RowNew ==
  << H(HItemName, Str(NameC)),
     H(HSellingPrice, Str(<<"1","9",".","9","9">>)),
     H(HCurrentQuantity, Str(<<"3">>)) >>

\* a name that differs from record 1's only in case
RowLowerName ==
  << H(HItemName, Str(NameLowerA)),
     H(HQuantity, Str(<<"7"," ","p","c","s">>)),
     H(HStatus, Str(<<"N","E","W">>)) >>

\* a new name with a status outside the options of the page
RowFreeStatus ==
  << H(HItemName, Str(NameC)), H(HStatus, Str(<<"S","o","l","d">>)) >>

RowPool ==
  {RowFull, RowFalsy, RowBare, RowNegative, RowNoNameHeader, RowEmptyName,
   RowZeroName, RowNew, RowLowerName}

RECURSIVE SeqsUpTo(_, _)
SeqsUpTo(S, k) ==
  IF k = 0 THEN {<<>>}
  ELSE LET shorter == SeqsUpTo(S, k - 1)
       IN shorter \cup {Append(q, x) : q \in {r \in shorter : Len(r) = k - 1}, x \in S}

\* the most spaces put on either side of a header
MaxPad == 1

\* the aliases of the six fields, in the order the handler reads them
FieldAliases ==
  <<ItemNameAliases, SellingPriceAliases, CurrentQuantityAliases, UnitTypeAliases,
    ExpiryDateAliases, StatusAliases>>

UpperOf == [c \in {LowerChars[i] : i \in 1..26} |-> UpperChars[CHOOSE i \in 1..26 : LowerChars[i] = c]]

UpperChar(c) == IF c \in DOMAIN UpperOf THEN UpperOf[c] ELSE c

\* the header in capitals
Capitals(str) == [i \in 1..Len(str) |-> UpperChar(str[i])]

\* the header with its first letter in capitals
Capitalized(str) == [i \in 1..Len(str) |-> IF i = 1 THEN UpperChar(str[i]) ELSE str[i]]

Pad(n) == [i \in 1..n |-> " "]

\* the spellings of an alias that differ from it in letter case or in
\* surrounding spaces only
HeaderVariants(alias) ==
  {Pad(l) \o c \o Pad(r) :
     c \in {alias, Capitals(alias), Capitalized(alias)}, l \in 0..MaxPad, r \in 0..MaxPad}

\* the spellings of the aliases of field f
FieldHeaders(f) ==
  UNION {HeaderVariants(FieldAliases[f][a]) : a \in 1..Len(FieldAliases[f])}

\* one-row sheets: the name of record 1 under every spelling of an item-name
\* alias, and a new name with one more cell under every spelling of an alias
\* of another field
NameHeaderRows ==
  {<< H(h, Str(NameA)), H(HPrice, Num(300)) >> : h \in FieldHeaders(1)}

FieldHeaderRows ==
  {<< H(HItemName, Str(NameC)), H(h, Str(<<"5">>)) >> :
     h \in UNION {FieldHeaders(f) : f \in 2..6}}

\* one-row sheets with two aliases of the same field as headers, in either
\* order and with different cells
TwoAliasRowsOf(f) ==
  LET n == Len(FieldAliases[f])
      pairs == {ab \in (1..n) \X (1..n) : ab[1] < ab[2]}
  IN UNION {{<< H(HItemName, Str(NameC)),
                H(FieldAliases[f][ab[1]], Str(<<"5">>)),
                H(Capitals(FieldAliases[f][ab[2]]), Str(<<"7">>)) >>,
             << H(HItemName, Str(NameC)),
                H(Capitals(FieldAliases[f][ab[2]]), Str(<<"7">>)),
                H(FieldAliases[f][ab[1]], Str(<<"5">>)) >>} : ab \in pairs}

TwoAliasRows == UNION {TwoAliasRowsOf(f) : f \in 2..6}

TwoNameRows ==
  {<< H(ItemNameAliases[2], Str(NameA)), H(ItemNameAliases[1], Str(NameC)) >>,
   << H(ItemNameAliases[1], Str(NameC)), H(ItemNameAliases[2], Str(NameA)) >>}

\* headers that are aliases of no field, next to an item name or alone
RowOtherHeaders ==
  << H(HItemName, Str(NameC)),
     H(<<"C","o","s","t">>, Num(700)),
     H(<<"Q","t","y">>, Num(700)),
     H(<<"U","n","i","t","s">>, Str(<<"b","o","x">>)),
     H(<<"E","x","p","i","r","e","s">>, Num(45000 * Scale)),
     H(<<"S","t","a","t","e">>, Str(<<"n","e","w">>)) >>

\* date serials, in hundredths of a day: 45000, the epoch, half a day before
\* it, a quarter past a day, an early and a late day, and 0
Serials ==
  {45000 * Scale, ExcelEpochOffset * Scale, ExcelEpochOffset * Scale - 50,
   45000 * Scale + 25, 1000 * Scale, 50000 * Scale, 0}

\* one-row sheets with a numeric expiry cell, for record 1 and for a new name
SerialRows ==
  {<< H(HItemName, Str(n)), H(HExpiryDate, Num(s)) >> : n \in {NameA, NameC}, s \in Serials}

FieldUploads ==
  {[kind |-> "sheet", rows |-> <<r>>] :
     r \in NameHeaderRows \cup FieldHeaderRows \cup TwoAliasRows \cup TwoNameRows
            \cup SerialRows \cup {RowOtherHeaders, RowNoNameHeader}}

\* what the request carries: no file, a file XLSX.read rejects, or a sheet
Uploads ==
  {[kind |-> "nofile", rows |-> <<>>], [kind |-> "unparsable", rows |-> <<>>]}
    \cup {[kind |-> "sheet", rows |-> f] : f \in SeqsUpTo(RowPool, MaxRows)}

\* the sheets imported while other requests are served
SharedSheets ==
  {<<RowFalsy, RowFull>>, <<RowNegative>>, <<RowZeroName, RowNew>>, <<RowLowerName>>,
   <<RowFreeStatus>>}

SharedUploads ==
  {[kind |-> "nofile", rows |-> <<>>]}
    \cup {[kind |-> "sheet", rows |-> f] : f \in SharedSheets}

Record1 ==
  [id |-> 1, itemName |-> NameA, sellingPrice |-> 500, currentQuantity |-> 50,
   unitType |-> Null,
   expiryDate |-> DateFromString(<<"2","0","2","5","-","0","1","-","0","1">>),
   status |-> <<"c","h","e","c","k","e","d">>]

Record2 ==
  [id |-> 2, itemName |-> NameB, sellingPrice |-> 150, currentQuantity |-> 7,
   unitType |-> Str(<<"b","o","x">>), expiryDate |-> Null,
   status |-> <<"n","e","w">>]

InitStores == {{}, {Record1}, {Record1, Record2}}

FirstFreeId == 3

\* a second record with the name of record 1: the table has no unique
\* constraint on itemName, and POST /api/inventory creates such a record
Record1Twin ==
  [id |-> 2, itemName |-> NameA, sellingPrice |-> 700, currentQuantity |-> 5,
   unitType |-> Str(<<"b","o","x">>), expiryDate |-> Null,
   status |-> <<"n","e","w">>]

TwiceStores == InitStores \cup {{Record1, Record1Twin}}

\* the sheets imported twice: up to MaxRows rows, several of them with the
\* same item name
TwiceRows == {RowFull, RowFalsy, RowBare, RowNegative, RowNew, RowLowerName}

TwiceUploads == {[kind |-> "sheet", rows |-> f] : f \in SeqsUpTo(TwiceRows, MaxRows)}

\* JSON bodies of POST /api/inventory and PUT /api/inventory/[id]
BodyUpper ==
  [itemName |-> Str(NameA), sellingPrice |-> Num(300), currentQuantity |-> Num(9 * Scale),
   unitType |-> Str(<<"b","o","x">>), expiryDate |-> Null,
   status |-> Str(<<"N","e","w">>)]

BodyNegative ==
  [itemName |-> Str(NameC), sellingPrice |-> Str(<<"-","2",".","5">>),
   currentQuantity |-> Num(-2 * Scale), unitType |-> Undefined,
   expiryDate |-> Str(<<"2","0","2","5","-","0","6","-","3","0">>),
   status |-> Undefined]

BodyMalformed ==
  [itemName |-> Undefined, sellingPrice |-> Str(<<"a","b","c">>),
   currentQuantity |-> Undefined, unitType |-> Undefined,
   expiryDate |-> Str(<<"s","o","o","n">>), status |-> Undefined]

Bodies == {BodyUpper, BodyNegative, BodyMalformed}

\* ------------------------------------------------------------------------
\* State
\* ------------------------------------------------------------------------

VARIABLES
  store,         \* the InventoryItem table: a set of records
  nextId,        \* the id the next create is given
  pc,            \* the import call: "idle", "lookup", "write" or "done"
  jsonData,      \* the rows of the uploaded sheet
  idx,           \* the row the import is processing (1-based)
  count,         \* the import's processed counter
  existingItem,  \* the result of the row's findFirst (NoItem for null)
  response,      \* the import's response
  log,           \* history: the store calls of the import that resolved, each
                 \* with the record found and the record before and after it
  apiStatus,     \* status of the last response to an item-route request of
                 \* another client (0: none yet)
  extOps,        \* number of item-route requests of other clients served
  starts,        \* history: the store as it was when each import call began
  items,         \* the page's cached item list (useQuery data): a sequence
  search,        \* the text of the search box
  debouncedSearch, \* the search text the list is filtered by
  statusFilter,  \* the status filter ("all" or a status)
  sortConfig,    \* Null or [key, direction]
  currentPage,   \* the page shown (1-based)
  pageEffect,    \* TRUE while the page-reset effect of a render is pending
  selectedItems, \* the set of selected ids
  event,         \* history: the page's handler that ran last, with its input
  value,         \* the text shown in the quantity cell of item CellId
  focused,       \* TRUE while that cell has the focus
  updates,       \* history: the onUpdate calls of the cell, each with the
                 \* body of its PUT
  resolved,      \* how many of them have been answered
  bulkStatus,    \* the status chosen for the selection ("" for none)
  isBulkStatusUpdating, \* the updating flag of the bulk status update
  bulkAwaiting,  \* TRUE while handleBulkStatusUpdate awaits its PUTs
  bulkIds,       \* the ids it was started with
  bulkPending,   \* its PUTs the server has not served yet
  bulkResponses  \* the responses of its PUTs served so far

importVars == <<pc, jsonData, idx, count, existingItem, response, log, starts>>

\* the state of the server: the store and the calls being served
serverVars == <<store, nextId, importVars, apiStatus, extOps>>

\* the state of the list view of the page
viewVars ==
  <<search, debouncedSearch, statusFilter, sortConfig, currentPage, pageEffect>>

\* the state of the page (src/app/page.tsx)
\* the state of the quantity cell and of its updates
cellVars == <<value, focused, updates, resolved>>

\* the state of the bulk status update
bulkVars ==
  <<bulkStatus, isBulkStatusUpdating, bulkAwaiting, bulkIds, bulkPending, bulkResponses>>

uiVars == <<items, viewVars, selectedItems, event, cellVars, bulkVars>>

vars == <<serverVars, uiVars>>

\* the page as it mounts (lines 190-200): no data yet (data: items = [])
AllStatuses == <<"a","l","l">>

Event(name, key, id) == [name |-> name, key |-> key, id |-> id]

NoEvent == Event("none", "", 0)

\* the list view as it mounts (lines 190-198)
ViewMounted ==
  /\ search = <<>>
  /\ debouncedSearch = <<>>
  /\ statusFilter = AllStatuses
  /\ sortConfig = Null
  /\ currentPage = 1
  /\ pageEffect = FALSE
  /\ selectedItems = {}
  /\ event = NoEvent

\* no bulk status update yet (lines 199-200)
BulkIdle ==
  /\ bulkStatus = <<>>
  /\ isBulkStatusUpdating = FALSE
  /\ bulkAwaiting = FALSE
  /\ bulkIds = {}
  /\ bulkPending = {}
  /\ bulkResponses = {}

\* no quantity cell followed
NoCell ==
  /\ value = <<>>
  /\ focused = FALSE
  /\ updates = <<>>
  /\ resolved = 0

PageMounted ==
  /\ items = <<>>
  /\ ViewMounted
  /\ NoCell
  /\ BulkIdle

\* keys: the properties of the JSON body
NoResponse == [kind |-> "none", status |-> 0, count |-> 0, keys |-> {}]

\* NextResponse.json({ message, count })
OkResponse(c) == [kind |-> "ok", status |-> 200, count |-> c, keys |-> {"message", "count"}]

\* NextResponse.json({ error }, { status })
ErrorResponse(code) == [kind |-> "error", status |-> code, count |-> 0, keys |-> {"error"}]

\* the server with no import call and no item-route request so far
ServerAtRest ==
  /\ pc = "idle"
  /\ jsonData = <<>>
  /\ idx = 0
  /\ count = 0
  /\ existingItem = NoItem
  /\ response = NoResponse
  /\ log = <<>>
  /\ apiStatus = 0
  /\ extOps = 0
  /\ starts = <<>>

Init ==
  /\ store \in InitStores
  /\ nextId = FirstFreeId
  /\ pc = "idle"
  /\ jsonData = <<>>
  /\ idx = 0
  /\ count = 0
  /\ existingItem = NoItem
  /\ response = NoResponse
  /\ log = <<>>
  /\ apiStatus = 0
  /\ extOps = 0
  /\ starts = <<>>
  /\ PageMounted

\* ------------------------------------------------------------------------
\* POST /api/inventory/import
\* ------------------------------------------------------------------------

\* the first row at or after i that is not skipped (Len + 1 when none is):
\* skipped rows take no await, so the loop runs through them in one step
RECURSIVE NextRow(_, _)
NextRow(rows, i) ==
  IF i > Len(rows) THEN i
  ELSE IF SkipRow(rows[i]) THEN NextRow(rows, i + 1)
  ELSE i

\* the loop from row i on, up to its next await: either the findFirst of the
\* next row that has a name, or the success response after the last row
Continue(rows, i, c) ==
  LET j == NextRow(rows, i)
  IN /\ idx' = j
     /\ IF j > Len(rows)
          THEN /\ pc' = "done"
               /\ response' = OkResponse(c)
          ELSE /\ pc' = "lookup"
               /\ response' = response

\* a request without a file served as an empty sheet
ImportStart_NoFileAsEmpty(upload) ==
  /\ pc = "idle"
  /\ log' = log
  /\ existingItem' = existingItem
  /\ UNCHANGED <<store, nextId, apiStatus, extOps>>
  /\ starts' = Append(starts, store)
  /\ IF upload.kind = "unparsable"
       THEN /\ pc' = "done"
            /\ response' = ErrorResponse(500)
            /\ UNCHANGED <<jsonData, idx, count>>
     ELSE /\ jsonData' = upload.rows
          /\ count' = 0
          /\ Continue(upload.rows, 1, 0)

\* lines 28-47: the request arrives, the workbook is read
ImportStart(upload) ==
  /\ pc = "idle"
  /\ log' = log
  /\ existingItem' = existingItem
  /\ UNCHANGED <<store, nextId, apiStatus, extOps>>
  /\ starts' = Append(starts, store)
  /\ IF upload.kind = "nofile"
       THEN /\ pc' = "done"
            /\ response' = ErrorResponse(400)
            /\ UNCHANGED <<jsonData, idx, count>>
     ELSE IF upload.kind = "unparsable"
       THEN /\ pc' = "done"
            /\ response' = ErrorResponse(500)
            /\ UNCHANGED <<jsonData, idx, count>>
     ELSE /\ jsonData' = upload.rows
          /\ count' = 0
          /\ Continue(upload.rows, 1, 0)

\* the lookup that finds no record
ImportLookup_NeverFound ==
  /\ pc = "lookup"
  /\ existingItem' = NoItem
  /\ log' = Append(log, [row |-> idx, op |-> "find", id |-> 0,
                          found |-> NoItem, before |-> NoItem, after |-> NoItem])
  /\ pc' = "write"
  /\ UNCHANGED <<store, nextId, jsonData, idx, count, response, apiStatus, extOps, starts>>

\* the lookups answered from the records the store held before the import
\* wrote any, as if every lookup were issued before the first write
ImportLookup_BeforeWrites ==
  /\ pc = "lookup"
  /\ LET name == String(itemNameOf(jsonData[idx]))
         matches == {r \in FindMatches(store, name) : r.id < FirstFreeId}
     IN \E found \in (IF matches = {} THEN {NoItem} ELSE matches) :
          /\ existingItem' = found
          /\ log' = Append(log, [row |-> idx, op |-> "find", id |-> found.id,
                                  found |-> found, before |-> NoItem,
                                  after |-> NoItem])
  /\ pc' = "write"
  /\ UNCHANGED <<store, nextId, jsonData, idx, count, response, apiStatus, extOps, starts>>

\* lines 81-83: the row's findFirst resolves
ImportLookup ==
  /\ pc = "lookup"
  /\ LET name == String(itemNameOf(jsonData[idx]))
         matches == FindMatches(store, name)
     IN \E found \in (IF matches = {} THEN {NoItem} ELSE matches) :
          /\ existingItem' = found
          /\ log' = Append(log, [row |-> idx, op |-> "find", id |-> found.id,
                                  found |-> found, before |-> NoItem,
                                  after |-> NoItem])
  /\ pc' = "write"
  /\ UNCHANGED <<store, nextId, jsonData, idx, count, response, apiStatus, extOps, starts>>

\* the update done as a delete of the record found and a create of the merged
\* record under a new id
ImportUpdate_Recreate ==
  /\ pc = "write"
  /\ existingItem.id # 0
  /\ HasId(store, existingItem.id)
  /\ store' = {r \in store : r.id # existingItem.id}
                 \cup {[ImportUpdateData(jsonData[idx], existingItem, existingItem)
                          EXCEPT !.id = nextId]}
  /\ nextId' = nextId + 1
  /\ log' = Append(log, [row |-> idx, op |-> "update", id |-> existingItem.id,
                          found |-> existingItem,
                          before |-> Stored(store, existingItem.id),
                          after |-> Stored(store', nextId)])
  /\ count' = count + 1
  /\ Continue(jsonData, idx + 1, count + 1)
  /\ UNCHANGED <<jsonData, existingItem, apiStatus, extOps, starts>>

\* the update merged with the record as it is in the store when the update
\* resolves, not as the lookup read it
ImportUpdate_FromStore ==
  /\ pc = "write"
  /\ existingItem.id # 0
  /\ HasId(store, existingItem.id)
  /\ store' = {IF r.id = existingItem.id
                  THEN ImportUpdateData(jsonData[idx], r, r)
                  ELSE r : r \in store}
  /\ log' = Append(log, [row |-> idx, op |-> "update", id |-> existingItem.id,
                          found |-> existingItem,
                          before |-> Stored(store, existingItem.id),
                          after |-> Stored(store', existingItem.id)])
  /\ count' = count + 1
  /\ Continue(jsonData, idx + 1, count + 1)
  /\ UNCHANGED <<nextId, jsonData, existingItem, apiStatus, extOps, starts>>

\* lines 85-107 and 122: the update of the record found resolves
ImportUpdate ==
  /\ pc = "write"
  /\ existingItem.id # 0
  /\ HasId(store, existingItem.id)
  /\ store' = {IF r.id = existingItem.id
                  THEN ImportUpdateData(jsonData[idx], existingItem, r)
                  ELSE r : r \in store}
  /\ log' = Append(log, [row |-> idx, op |-> "update", id |-> existingItem.id,
                          found |-> existingItem,
                          before |-> Stored(store, existingItem.id),
                          after |-> Stored(store', existingItem.id)])
  /\ count' = count + 1
  /\ Continue(jsonData, idx + 1, count + 1)
  /\ UNCHANGED <<nextId, jsonData, existingItem, apiStatus, extOps, starts>>

\* the create that does not count its row
ImportCreate_NoCount ==
  /\ pc = "write"
  /\ existingItem.id = 0
  /\ store' = store \cup {ImportCreateData(jsonData[idx], nextId)}
  /\ nextId' = nextId + 1
  /\ log' = Append(log, [row |-> idx, op |-> "create", id |-> nextId,
                          found |-> NoItem, before |-> NoItem,
                          after |-> Stored(store', nextId)])
  /\ count' = count
  /\ Continue(jsonData, idx + 1, count)
  /\ UNCHANGED <<jsonData, existingItem, apiStatus, extOps, starts>>

\* lines 108-122: the create resolves
ImportCreate ==
  /\ pc = "write"
  /\ existingItem.id = 0
  /\ store' = store \cup {ImportCreateData(jsonData[idx], nextId)}
  /\ nextId' = nextId + 1
  /\ log' = Append(log, [row |-> idx, op |-> "create", id |-> nextId,
                          found |-> NoItem, before |-> NoItem,
                          after |-> Stored(store', nextId)])
  /\ count' = count + 1
  /\ Continue(jsonData, idx + 1, count + 1)
  /\ UNCHANGED <<jsonData, existingItem, apiStatus, extOps, starts>>

\* the failure of a row caught inside the loop: the error is kept for the
\* response and the import goes on with the next row
ImportStoreError_NextRow ==
  /\ pc \in {"lookup", "write"}
  /\ idx' = NextRow(jsonData, idx + 1)
  /\ pc' = IF idx' > Len(jsonData) THEN "done" ELSE "lookup"
  /\ response' = ErrorResponse(500)
  /\ UNCHANGED <<store, nextId, jsonData, count, existingItem, log, apiStatus, extOps, starts>>

\* the update of a record that is gone done as an upsert: the record is
\* created again from the lookup's copy and the import goes on
ImportStoreError_Upsert ==
  /\ pc \in {"lookup", "write"}
  /\ IF pc = "write" /\ existingItem.id # 0 /\ ~HasId(store, existingItem.id)
       THEN /\ store' = store \cup {ImportUpdateData(jsonData[idx], existingItem, existingItem)}
            /\ count' = count + 1
            /\ Continue(jsonData, idx + 1, count + 1)
       ELSE /\ pc' = "done"
            /\ response' = ErrorResponse(500)
            /\ UNCHANGED <<store, idx, count>>
  /\ UNCHANGED <<nextId, jsonData, existingItem, log, apiStatus, extOps, starts>>

\* the failure of a row answered as a success with the rows counted so far
ImportStoreError_PartialSuccess ==
  /\ pc \in {"lookup", "write"}
  /\ pc' = "done"
  /\ response' = OkResponse(count)
  /\ UNCHANGED <<store, nextId, jsonData, idx, count, existingItem, log, apiStatus, extOps, starts>>

\* lines 126-129: a store call of the row rejects (the store is unavailable,
\* or the record to update is gone); the catch answers 500
ImportStoreError ==
  /\ pc \in {"lookup", "write"}
  /\ pc' = "done"
  /\ response' = ErrorResponse(500)
  /\ UNCHANGED <<store, nextId, jsonData, idx, count, existingItem, log, apiStatus, extOps, starts>>

\* lines 28-47, once more: after the response of an import, a second request
\* with the same file arrives
ImportAgain ==
  /\ pc = "done"
  /\ response.kind = "ok"
  /\ Len(starts) = 1
  /\ starts' = Append(starts, store)
  /\ count' = 0
  /\ idx' = NextRow(jsonData, 1)
  /\ IF idx' > Len(jsonData)
       THEN pc' = "done" /\ response' = OkResponse(0)
       ELSE pc' = "lookup" /\ response' = NoResponse
  /\ UNCHANGED <<store, nextId, jsonData, existingItem, log, apiStatus, extOps>>

\* ------------------------------------------------------------------------
\* POST /api/inventory, PUT and DELETE /api/inventory/[id]
\* ------------------------------------------------------------------------

\* new Date(x) of a JSON value: a string is parsed, a number is milliseconds
NewDate(v) ==
  IF v.t = "string" THEN DateFromString(v.s)
  ELSE IF v.t = "number" THEN DateV((v.n \div Scale) \div 1000)
  ELSE InvalidDate

\* x ? new Date(x) : null
DateOrNull(v) == IF Truthy(v) THEN NewDate(v) ELSE Null

\* what the client accepts for a Float, an Int, a String and a DateTime
\* argument; anything else rejects the call
IsFloatArg(v) == v.t = "number"

IsIntArg(v) == v.t = "number" /\ v.n % Scale = 0

IsStringArg(v) == v.t = "string"

IsDateArg(v) == v.t \in {"date", "null"}

\* data of POST /api/inventory (page.tsx lines 1311-1320)
ApiCreateData(body, newId) ==
  [id |-> newId,
   itemName |-> body.itemName.s,
   sellingPrice |-> Number(body.sellingPrice).n,
   currentQuantity |-> Number(body.currentQuantity).n \div Scale,
   unitType |-> Or(body.unitType, Str(<<>>)),
   expiryDate |-> DateOrNull(body.expiryDate),
   status |-> Or(body.status, Str(DefaultStatus)).s]

ApiCreateAccepted(body) ==
  /\ IsStringArg(body.itemName)
  /\ IsFloatArg(Number(body.sellingPrice))
  /\ IsIntArg(Number(body.currentQuantity))
  /\ IsStringArg(Or(body.unitType, Str(<<>>)))
  /\ IsDateArg(DateOrNull(body.expiryDate))
  /\ IsStringArg(Or(body.status, Str(DefaultStatus)))

\* POST /api/inventory (page.tsx lines 1301-1327)
ApiCreate(body) ==
  /\ extOps < MaxExt
  /\ extOps' = extOps + 1
  /\ IF \/ ~Truthy(body.itemName)
        \/ body.sellingPrice.t = "undefined"
        \/ body.currentQuantity.t = "undefined"
       THEN /\ apiStatus' = 400
            /\ UNCHANGED <<store, nextId>>
     ELSE IF ApiCreateAccepted(body)
       THEN /\ store' = store \cup {ApiCreateData(body, nextId)}
            /\ nextId' = nextId + 1
            /\ apiStatus' = 201
     ELSE /\ apiStatus' = 500
          /\ UNCHANGED <<store, nextId>>
  /\ UNCHANGED importVars

\* data of PUT /api/inventory/[id] (lines 21-29): an undefined field is
\* left as it is
ApiUpdateData(body, old) ==
  [id |-> old.id,
   itemName |-> IF body.itemName.t = "undefined" THEN old.itemName ELSE body.itemName.s,
   sellingPrice |-> parseFloat(String(body.sellingPrice)).n,
   currentQuantity |-> parseInt(String(body.currentQuantity)).n \div Scale,
   unitType |-> IF body.unitType.t = "undefined" THEN old.unitType ELSE body.unitType,
   expiryDate |-> DateOrNull(body.expiryDate),
   status |-> IF body.status.t = "undefined" THEN old.status ELSE body.status.s]

ApiUpdateAccepted(body) ==
  /\ body.itemName.t \in {"undefined", "string"}
  /\ IsFloatArg(parseFloat(String(body.sellingPrice)))
  /\ IsIntArg(parseInt(String(body.currentQuantity)))
  /\ body.unitType.t \in {"undefined", "null", "string"}
  /\ IsDateArg(DateOrNull(body.expiryDate))
  /\ body.status.t \in {"undefined", "string"}

\* PUT /api/inventory/[id] (lines 12-36)
ApiUpdate(itemId, body) ==
  /\ extOps < MaxExt
  /\ extOps' = extOps + 1
  /\ IF HasId(store, itemId) /\ ApiUpdateAccepted(body)
       THEN /\ store' = {IF r.id = itemId THEN ApiUpdateData(body, r) ELSE r : r \in store}
            /\ apiStatus' = 200
       ELSE /\ store' = store
            /\ apiStatus' = 500
  /\ UNCHANGED nextId
  /\ UNCHANGED importVars

\* DELETE /api/inventory/[id] (lines 45-59)
ApiDelete(itemId) ==
  /\ extOps < MaxExt
  /\ extOps' = extOps + 1
  /\ IF HasId(store, itemId)
       THEN /\ store' = {r \in store : r.id # itemId}
            /\ apiStatus' = 200
       ELSE /\ store' = store
            /\ apiStatus' = 500
  /\ UNCHANGED nextId
  /\ UNCHANGED importVars

\* ------------------------------------------------------------------------
\* Specification
\* ------------------------------------------------------------------------

\* one import call, served alone, over every sheet of up to MaxRows rows
Next ==
  \/ pc = "idle" /\ \E upload \in Uploads : ImportStart(upload) /\ UNCHANGED uiVars
  \/ ImportLookup /\ UNCHANGED uiVars
  \/ ImportUpdate /\ UNCHANGED uiVars
  \/ ImportCreate /\ UNCHANGED uiVars
  \/ ImportStoreError /\ UNCHANGED uiVars

Spec == Init /\ [][Next]_vars

\* one import call of a sheet of SharedSheets, served while up to MaxExt
\* requests to the item routes are served
NextRoutes ==
  \/ pc = "idle" /\ \E upload \in SharedUploads : ImportStart(upload) /\ UNCHANGED uiVars
  \/ ImportLookup /\ UNCHANGED uiVars
  \/ ImportUpdate /\ UNCHANGED uiVars
  \/ ImportCreate /\ UNCHANGED uiVars
  \/ ImportStoreError /\ UNCHANGED uiVars
  \/ extOps < MaxExt /\ \E body \in Bodies : ApiCreate(body) /\ UNCHANGED uiVars
  \/ extOps < MaxExt /\ \E itemId \in 1..nextId, body \in Bodies : ApiUpdate(itemId, body) /\ UNCHANGED uiVars
  \/ extOps < MaxExt /\ \E itemId \in 1..nextId : ApiDelete(itemId) /\ UNCHANGED uiVars

SpecRoutes == Init /\ [][NextRoutes]_vars

\* one import call of a one-row sheet of FieldUploads into a store that
\* holds record 1
InitFields == Init /\ store = {Record1}

NextFields ==
  \/ pc = "idle" /\ \E upload \in FieldUploads : ImportStart(upload) /\ UNCHANGED uiVars
  \/ ImportLookup /\ UNCHANGED uiVars
  \/ ImportUpdate /\ UNCHANGED uiVars
  \/ ImportCreate /\ UNCHANGED uiVars
  \/ ImportStoreError /\ UNCHANGED uiVars

SpecFields == InitFields /\ [][NextFields]_vars

\* two import calls of the same sheet in succession, served alone
InitTwice ==
  /\ store \in TwiceStores
  /\ nextId = FirstFreeId
  /\ pc = "idle"
  /\ jsonData = <<>>
  /\ idx = 0
  /\ count = 0
  /\ existingItem = NoItem
  /\ response = NoResponse
  /\ log = <<>>
  /\ apiStatus = 0
  /\ extOps = 0
  /\ starts = <<>>
  /\ PageMounted

NextTwice ==
  \/ pc = "idle" /\ \E upload \in TwiceUploads : ImportStart(upload) /\ UNCHANGED uiVars
  \/ ImportLookup /\ UNCHANGED uiVars
  \/ ImportUpdate /\ UNCHANGED uiVars
  \/ ImportCreate /\ UNCHANGED uiVars
  \/ ImportStoreError /\ UNCHANGED uiVars
  \/ ImportAgain /\ UNCHANGED uiVars

SpecTwice == InitTwice /\ [][NextTwice]_vars

TypeOK ==
  /\ pc \in {"idle", "lookup", "write", "done"}
  /\ idx \in 0..(MaxRows + 2)
  /\ \A r \in store : r.id \in 1..(nextId - 1)

\* ------------------------------------------------------------------------
\* Properties
\* ------------------------------------------------------------------------

IsWrite(e) == e.op \in {"create", "update"}

LogIndexes == 1..Len(log)

\* a cell that is missing or the empty string
IsEmptyCell(v) == v.t = "undefined" \/ (v.t = "string" /\ v.s = <<>>)

\* a cell that is missing, the empty string or the number 0
IsBlankOrZero(v) == IsEmptyCell(v) \/ (v.t = "number" /\ v.n = 0)

\* some header of the row is one of the aliases, up to case and outer space
HasAliasHeader(row, aliases) ==
  \E i \in 1..Len(row), a \in 1..Len(aliases) :
    trim(toLowerCase(row[i].k)) = aliases[a]

UpdateIndexes == {k \in LogIndexes : log[k].op = "update"}

\* C1: when an import row matches an existing record, the record's
\* currentQuantity after the update is the coerced import quantity when that is
\* non-zero, and the quantity the row's lookup read when the coerced value is 0
\* (cell 0, blank, missing or unparsable).
C1_QuantityMerge ==
  \A k \in UpdateIndexes :
    LET row == jsonData[log[k].row]
        raw == currentQuantityRaw(row)
        coerced == currentQuantityOf(row)
        after == log[k].after.currentQuantity
    IN /\ coerced # 0 => after = coerced
       /\ coerced = 0 => after = log[k].found.currentQuantity
       /\ (IsBlankOrZero(raw) \/ parseInt(String(raw)) = NaN) => coerced = 0

\* an update with quantity cell 0 has kept the stored 50 and an update with
\* quantity cell 12 has then written 12
C1_Witness ==
  /\ Len(log) = 4
  /\ log[2].op = "update" /\ currentQuantityRaw(jsonData[log[2].row]) = Num(0)
  /\ log[2].found.currentQuantity = 50 /\ log[2].after.currentQuantity = 50
  /\ log[4].op = "update" /\ currentQuantityRaw(jsonData[log[4].row]) = Num(12 * Scale)
  /\ log[4].found.currentQuantity = 50 /\ log[4].after.currentQuantity = 12
  /\ \E r \in store : r.id = log[4].id /\ r.currentQuantity = 12

\* the item-name value of the row cannot be resolved: no header is an
\* item-name alias, or the resolved cell is empty
NameUnresolved(row) ==
  \/ ~HasAliasHeader(row, ItemNameAliases)
  \/ IsEmptyCell(itemNameOf(row))

\* C2: a row whose item name cannot be resolved causes no lookup, create or
\* update and does not increment the processed count: no store call in the
\* log is for such a row, and the count is the number of writes in the log.
C2_UnresolvedRowSkipped ==
  /\ \A k \in LogIndexes : ~NameUnresolved(jsonData[log[k].row])
  /\ count = Cardinality({k \in LogIndexes : IsWrite(log[k])})

\* the import has finished a sheet that holds a row without a resolvable name
\* and a row with one
C2_Witness ==
  /\ pc = "done" /\ response.kind = "ok"
  /\ Len(jsonData) = 2
  /\ NameUnresolved(jsonData[1])
  /\ ~NameUnresolved(jsonData[2])
  /\ response.count = 1

\* the row's item-name cell is usable: a header is an item-name alias and the
\* resolved cell is neither empty nor the number 0
NameUsable(row) ==
  /\ HasAliasHeader(row, ItemNameAliases)
  /\ ~IsBlankOrZero(itemNameOf(row))

FindsOf(i) == {k \in LogIndexes : log[k].row = i /\ log[k].op = "find"}

WritesOf(i) == {k \in LogIndexes : log[k].row = i /\ IsWrite(log[k])}

\* row i was looked up once and then written once: created when the lookup
\* found no record, updated when it found one
OneWrite(i) ==
  /\ Cardinality(FindsOf(i)) = 1
  /\ Cardinality(WritesOf(i)) = 1
  /\ \A f \in FindsOf(i), w \in WritesOf(i) :
       /\ f < w
       /\ log[w].op = "create" <=> log[f].found.id = 0
       /\ log[w].op = "update" => log[w].id = log[f].found.id

\* C3 as stated: on a successful import the returned count is the number of
\* rows that had a resolvable item name, and each such row produced exactly
\* one create (no record of that name at its lookup) or one update.
C3_CountsResolvableRows ==
  (pc = "done" /\ response.kind = "ok") =>
    LET named == {i \in 1..Len(jsonData) : ~NameUnresolved(jsonData[i])}
    IN /\ response.count = Cardinality(named)
       /\ \A i \in named : OneWrite(i)

\* C3, amended: on a successful import the returned count is the number of
\* rows whose item-name cell is usable (a header is an item-name alias and the
\* cell is neither empty nor the number 0); each such row produced exactly one
\* create (no record of that name at its lookup) or one update, and no other
\* row produced a store call.
C3_CountsUsableRows ==
  (pc = "done" /\ response.kind = "ok") =>
    LET named == {i \in 1..Len(jsonData) : NameUsable(jsonData[i])}
    IN /\ response.count = Cardinality(named)
       /\ \A i \in named : OneWrite(i)
       /\ \A k \in LogIndexes : log[k].row \in named

\* a row matching a record and a row matching none: one update, one create
\* and count 2
C3_Witness ==
  /\ pc = "done" /\ response.kind = "ok" /\ response.count = 2
  /\ Cardinality({k \in LogIndexes : log[k].op = "update"}) = 1
  /\ Cardinality({k \in LogIndexes : log[k].op = "create"}) = 1

\* C4 as stated: the update overwrites the status with the lowercased import
\* value whenever the row has a status cell at all (an empty or 0 cell
\* included) and leaves the existing status only when the row has none.
C4_StatusWhenCellPresent ==
  \A k \in UpdateIndexes :
    LET raw == statusRaw(jsonData[log[k].row])
    IN log[k].after.status =
         IF raw.t # "undefined" THEN toLowerCase(String(raw)) ELSE log[k].found.status

\* C4, amended: the update overwrites the status with the lowercased import
\* value when the status cell is non-empty and not the number 0; when the row
\* has no status cell, or the cell is empty or 0, the status is the existing
\* one, lowercased.
C4_StatusWhenCellTruthy ==
  \A k \in UpdateIndexes :
    LET raw == statusRaw(jsonData[log[k].row])
    IN log[k].after.status =
         IF IsBlankOrZero(raw) THEN toLowerCase(log[k].found.status)
         ELSE toLowerCase(String(raw))

\* an update by a row whose status cell is 0 has kept the status, and an
\* update by a row whose status cell is "Updated" has written "updated"
C4_Witness ==
  \E j, k \in UpdateIndexes :
    /\ statusRaw(jsonData[log[j].row]) = Num(0)
    /\ log[j].after.status = log[j].found.status
    /\ statusRaw(jsonData[log[k].row]) = Str(<<"U","p","d","a","t","e","d">>)
    /\ log[k].after.status = <<"u","p","d","a","t","e","d">>

\* C5: every stored record has sellingPrice >= 0 and currentQuantity >= 0
\* after any sequence of writes.
C5_NonNegative ==
  \A r \in store : r.sellingPrice >= 0 /\ r.currentQuantity >= 0

\* C6: the status of every stored record is a lowercase string after any
\* sequence of writes.
C6_LowercaseStatus ==
  \A r \in store : r.status = toLowerCase(r.status)

\* C7: when the processing of row k fails, the import is over: no row after k
\* has been looked up or written, and every create or update performed for
\* the rows before k is still in the store (nothing is rolled back).
C7_AbortKeepsCommitted ==
  response.kind = "error" =>
    /\ pc = "done"
    /\ \A k \in LogIndexes : log[k].row <= idx
    /\ \A i \in 1..(idx - 1) : NameUsable(jsonData[i]) => OneWrite(i)
    /\ \A k \in LogIndexes :
         IsWrite(log[k]) =>
           /\ HasId(store, log[k].id)
           /\ (\A j \in LogIndexes : (j > k /\ IsWrite(log[j])) => log[j].id # log[k].id)
                => Stored(store, log[k].id) = log[k].after

\* the store call of the second row failed after the first row was written
C7_Witness ==
  /\ response.kind = "error" /\ response.status = 500
  /\ idx = 2
  /\ \E k \in LogIndexes : log[k].row = 1 /\ IsWrite(log[k])
  /\ WritesOf(2) = {}

\* C8: the update sets expiryDate to the import's date when the expiry cell
\* yields a valid date (a non-zero serial, or a string that parses) and leaves
\* the existing expiryDate when the cell is absent or yields no valid date.
C8_ExpiryMerge ==
  \A k \in UpdateIndexes :
    LET raw == expiryDateRaw(jsonData[log[k].row])
        after == log[k].after.expiryDate
        kept == log[k].found.expiryDate
    IN /\ raw.t = "undefined" => after = kept
       /\ (raw.t = "number" /\ raw.n # 0) => after = DateFromSerial(raw.n)
       /\ (raw.t = "number" /\ raw.n = 0) => after = kept
       /\ (raw.t = "string" /\ ValidDate(DateFromString(raw.s))) => after = DateFromString(raw.s)
       /\ (raw.t = "string" /\ ~ValidDate(DateFromString(raw.s))) => after = kept

\* an update by a row with an unparsable expiry cell has kept 2025-01-01
C8_Witness ==
  \E k \in UpdateIndexes :
    /\ expiryDateRaw(jsonData[log[k].row]) = Str(<<"n","/","a">>)
    /\ log[k].found.expiryDate = DateV(20089 * SecondsPerDay)
    /\ \E r \in store : r.id = log[k].id /\ r.expiryDate = DateV(20089 * SecondsPerDay)

\* C9: the update always sets sellingPrice to the coerced import price, which
\* is 0 when the price cell is missing or unparsable.
C9_PriceOverwritten ==
  \A k \in UpdateIndexes :
    LET raw == sellingPriceRaw(jsonData[log[k].row])
        after == log[k].after.sellingPrice
    IN /\ after = sellingPriceOf(jsonData[log[k].row])
       /\ (raw.t = "undefined" \/ parseFloat(String(raw)) = NaN) => after = 0
       /\ (raw.t = "number") => after = raw.n

\* an update by a row with an unparsable price cell has replaced a non-zero
\* price by 0
C9_Witness ==
  \E k \in UpdateIndexes :
    /\ sellingPriceRaw(jsonData[log[k].row]) = Str(<<"a","b","c">>)
    /\ log[k].found.sellingPrice # 0
    /\ \E r \in store : r.id = log[k].id /\ r.sellingPrice = 0

\* the unit type the update falls back to
KeptUnitType(found) == IF found.unitType = Null THEN Str(<<>>) ELSE found.unitType

\* C10 as stated: the update sets unitType to the import's unit value when
\* that value is non-empty, otherwise to the existing unitType, and to the
\* empty string when the existing unitType is null.
C10_UnitWhenNonEmpty ==
  \A k \in UpdateIndexes :
    LET raw == unitTypeOf(jsonData[log[k].row])
    IN log[k].after.unitType =
         IF ~IsEmptyCell(raw) THEN Str(String(raw)) ELSE KeptUnitType(log[k].found)

\* C10, amended: the update sets unitType to the import's unit value (as a
\* string) when that value is non-empty and not the number 0, otherwise to the
\* existing unitType, and to the empty string when the existing unitType is
\* null.
C10_UnitWhenTruthy ==
  \A k \in UpdateIndexes :
    LET raw == unitTypeOf(jsonData[log[k].row])
    IN log[k].after.unitType =
         IF ~IsBlankOrZero(raw) THEN Str(String(raw)) ELSE KeptUnitType(log[k].found)

\* an update by a row whose unit cell is 0 has turned a null unitType into
\* the empty string, and an update with unit "pcs" has written "pcs"
C10_Witness ==
  \E j, k \in UpdateIndexes :
    /\ unitTypeOf(jsonData[log[j].row]) = Num(0)
    /\ log[j].found.unitType = Null
    /\ log[j].after.unitType = Str(<<>>)
    /\ unitTypeOf(jsonData[log[k].row]) = Str(<<"p","c","s">>)
    /\ log[k].after.unitType = Str(<<"p","c","s">>)

CreateIndexes == {k \in LogIndexes : log[k].op = "create"}

\* the fields of a created record that do not depend on how a falsy unit or
\* status cell is read: the lookup found nothing, the record is new, and its
\* name, price, quantity and expiry date are the row's
CreatedFrom(k) ==
  LET row == jsonData[log[k].row]
      rec == log[k].after
      exp == expiryDateOf(row)
  IN /\ log[k].found = NoItem
     /\ rec.id = log[k].id
     /\ \A j \in CreateIndexes : j # k => log[j].id # rec.id
     /\ rec.itemName = String(itemNameOf(row))
     /\ rec.sellingPrice = sellingPriceOf(row)
     /\ rec.currentQuantity = currentQuantityOf(row)
     /\ rec.expiryDate = (IF ValidDate(exp) THEN exp ELSE Null)

\* C11 as stated: a row that matches no record creates exactly one record with
\* the row's name, the coerced price and quantity, unitType as resolved or the
\* empty string, the resolved date if valid else null, and the lowercased
\* resolved status, "not yet" when the row has no status.
C11_CreateAsResolved ==
  /\ nextId = FirstFreeId + Cardinality(CreateIndexes)
  /\ \A k \in CreateIndexes :
       LET row == jsonData[log[k].row]
           rec == log[k].after
       IN /\ CreatedFrom(k)
          /\ rec.unitType =
               (IF IsEmptyCell(unitTypeOf(row)) THEN Str(<<>>) ELSE Str(String(unitTypeOf(row))))
          /\ rec.status =
               (IF statusRaw(row).t = "undefined" THEN DefaultStatus
                ELSE toLowerCase(String(statusRaw(row))))

\* C11, amended: as above, with unitType the empty string and status "not yet"
\* also when the cell is empty or the number 0.
C11_CreateAsCoerced ==
  /\ nextId = FirstFreeId + Cardinality(CreateIndexes)
  /\ \A k \in CreateIndexes :
       LET row == jsonData[log[k].row]
           rec == log[k].after
       IN /\ CreatedFrom(k)
          /\ rec.unitType =
               (IF IsBlankOrZero(unitTypeOf(row)) THEN Str(<<>>) ELSE Str(String(unitTypeOf(row))))
          /\ rec.status =
               (IF IsBlankOrZero(statusRaw(row)) THEN DefaultStatus
                ELSE toLowerCase(String(statusRaw(row))))

\* a row "C" with price "19.99" and quantity "3" and no status has created a
\* record with 19.99, 3 and "not yet"
C11_Witness ==
  \E k \in CreateIndexes :
    /\ sellingPriceRaw(jsonData[log[k].row]) = Str(<<"1","9",".","9","9">>)
    /\ currentQuantityRaw(jsonData[log[k].row]) = Str(<<"3">>)
    /\ \E r \in store :
         /\ r.id = log[k].id /\ r.itemName = NameC
         /\ r.sellingPrice = 1999 /\ r.currentQuantity = 3
         /\ r.unitType = Str(<<>>) /\ r.expiryDate = Null
         /\ r.status = DefaultStatus

FindIndexes == {k \in LogIndexes : log[k].op = "find"}

\* the writes of the import that resolved before store call k and wrote a
\* record of the given name
WritesBefore(k, name) ==
  {w \in 1..(k - 1) : IsWrite(log[w]) /\ log[w].after.itemName = name}

\* the last write before store call k to the record of the given id (0: none)
LastWriteOf(k, id) ==
  LET ws == {w \in 1..(k - 1) : IsWrite(log[w]) /\ log[w].id = id}
  IN IF ws = {} THEN 0 ELSE CHOOSE w \in ws : \A v \in ws : v <= w

\* C12: the rows are processed in file order, one lookup then one write per
\* row; the write of row i has resolved before the lookup of a later row j is
\* issued, and that lookup sees what the write stored.
C12_RowsInOrder ==
  /\ \A k \in LogIndexes : (k % 2 = 1) <=> (log[k].op = "find")
  /\ \A k \in LogIndexes :
       IsWrite(log[k]) => log[k - 1].op = "find" /\ log[k - 1].row = log[k].row
  /\ \A j, k \in FindIndexes : j < k => log[j].row < log[k].row
  /\ \A k \in FindIndexes :
       LET name == String(itemNameOf(jsonData[log[k].row]))
           last == LastWriteOf(k, log[k].found.id)
       IN /\ WritesBefore(k, name) # {} => log[k].found.id # 0
          /\ (log[k].found.id # 0 /\ last # 0) => log[k].found = log[last].after

\* two rows with the same new name: the first created the record and the
\* lookup of the second found it as created
C12_Witness ==
  /\ Len(log) >= 3
  /\ log[2].op = "create" /\ log[2].row = 1
  /\ log[3].op = "find" /\ log[3].row = 2
  /\ log[3].found = log[2].after

\* C13: the import's update is computed from the record as the lookup read
\* it: whatever another request wrote to the record since, the quantity,
\* unit type, expiry date and status it keeps are the lookup's, and the
\* record after the update holds them in place of the other request's.
C13_UpdateFromSnapshot ==
  \A k \in UpdateIndexes :
    LET row == jsonData[log[k].row]
        found == log[k].found
        rec == log[k].after
    IN /\ rec.id = found.id /\ rec.id = log[k].before.id
       /\ rec.sellingPrice = sellingPriceOf(row)
       /\ rec.currentQuantity =
            (IF currentQuantityOf(row) = 0 THEN found.currentQuantity
             ELSE currentQuantityOf(row))
       /\ IsBlankOrZero(unitTypeOf(row)) => rec.unitType = KeptUnitType(found)
       /\ ~ValidDate(expiryDateOf(row)) => rec.expiryDate = found.expiryDate
       /\ IsBlankOrZero(statusRaw(row)) => rec.status = toLowerCase(found.status)

\* the lost update: the lookup read quantity 50, another request then wrote
\* another quantity to the record, and the update of the row, whose quantity
\* cell is 0, put 50 back
C13_Witness ==
  \E k \in UpdateIndexes :
    /\ currentQuantityRaw(jsonData[log[k].row]) = Num(0)
    /\ log[k].found.currentQuantity = 50
    /\ log[k].before.currentQuantity # 50
    /\ log[k].after.currentQuantity = 50
    /\ \E r \in store : r.id = log[k].id /\ r.currentQuantity = 50

\* the response of the import in a state: none while the call runs; once it
\* is over either {message, count} with a 2xx status, every usable row looked
\* up and written once and counted, or {error} alone with a non-2xx status
ResponseShape ==
  /\ (pc = "done") <=> (response.kind # "none")
  /\ response.kind \in {"none", "ok", "error"}
  /\ response.kind = "ok" =>
       /\ response.status \in 200..299
       /\ response.keys = {"message", "count"}
       /\ response.count = Cardinality({i \in 1..Len(jsonData) : NameUsable(jsonData[i])})
       /\ \A i \in 1..Len(jsonData) : NameUsable(jsonData[i]) => OneWrite(i)
  /\ response.kind = "error" =>
       /\ response.status \notin 200..299
       /\ response.keys = {"error"}

\* C14: every import call ends in exactly one response, {message, count} with
\* a 2xx status when every row was attempted without error, or {error} with a
\* non-2xx status and no count when a step failed; a failure never yields a
\* success response, a response once given is not replaced, and no per-row
\* detail is in it.
C14_OneResponse ==
  /\ []ResponseShape
  /\ [][response.kind # "none" => response' = response]_vars

\* the second row's store call failed after the first row was counted: the
\* response is {error} with 500 and carries no count
C14_Witness ==
  /\ pc = "done" /\ count = 1 /\ Len(jsonData) = 2
  /\ response.kind = "error" /\ response.status = 500
  /\ response.keys = {"error"}

\* C15: an import request that carries no file is answered with an error
\* response of status 400, and no lookup, create or update is performed for
\* it: the step leaves the store as it is, and the log of store calls is and
\* stays empty.
C15_NoFile ==
  /\ [][ImportStart([kind |-> "nofile", rows |-> <<>>]) =>
          /\ pc' = "done"
          /\ response'.kind = "error" /\ response'.status = 400
          /\ store' = store /\ nextId' = nextId
          /\ log = <<>> /\ log' = <<>>]_vars
  /\ [](response.status = 400 => (pc = "done" /\ log = <<>> /\ count = 0))

\* the request without a file has been answered 400 and the two records of
\* the store are as they were
C15_Witness ==
  /\ pc = "done"
  /\ response.kind = "error" /\ response.status = 400
  /\ store = {Record1, Record2} /\ nextId = FirstFreeId
  /\ log = <<>>

\* the values of STATUS_OPTIONS
StatusOptions ==
  {<<"n","e","w">>, <<"c","h","e","c","k","e","d">>, <<"u","p","d","a","t","e","d">>,
   DefaultStatus}

\* C16: in every reachable state of the store the status of every record is
\* one of new, checked, updated, not yet.
C16_StatusVocabulary ==
  \A r \in store : r.status \in StatusOptions

\* the two strings are the same up to the case of their letters
SameUpToCase(s1, s2) ==
  /\ Len(s1) = Len(s2)
  /\ \A i \in 1..Len(s1) : UpperChar(s1[i]) = UpperChar(s2[i])

\* the header is the alias up to letter case and surrounding white space
IsSpelling(header, alias) ==
  \E l \in 0..(Len(header) - Len(alias)) :
    /\ \A i \in 1..l : IsSpace(header[i])
    /\ \A i \in (l + Len(alias) + 1)..Len(header) : IsSpace(header[i])
    /\ SameUpToCase(SubSeq(header, l + 1, l + Len(alias)), alias)

\* the properties of the row whose header is a spelling of the alias
HeadersOf(row, alias) == {p \in 1..Len(row) : IsSpelling(row[p].k, alias)}

\* property p is the only one of the row whose header is a spelling of an
\* alias of field f
OnlyHeaderOf(row, f, p) ==
  \A a \in 1..Len(FieldAliases[f]) : HeadersOf(row, FieldAliases[f][a]) \subseteq {p}

\* the row with the header of its property p replaced
Renamed(row, p, header) == [row EXCEPT ![p].k = header]

\* C17: a header that differs from an alias of a field in letter case or in
\* surrounding spaces only resolves as the alias itself does: the field's
\* value is the same as when the header is spelled exactly as the alias, and
\* it is the cell under that header when the row has no other header of the
\* field.
C17_HeaderVariants ==
  \A i \in 1..Len(jsonData) :
    \A f \in 1..Len(FieldAliases), p \in 1..Len(jsonData[i]) :
      \A a \in 1..Len(FieldAliases[f]) :
        jsonData[i][p].k \in HeaderVariants(FieldAliases[f][a]) =>
          /\ Cell(jsonData[i], FieldAliases[f]) =
               Cell(Renamed(jsonData[i], p, FieldAliases[f][a]), FieldAliases[f])
          /\ OnlyHeaderOf(jsonData[i], f, p) =>
               /\ Cell(jsonData[i], FieldAliases[f]) = jsonData[i][p].v
               /\ ResolveKey(jsonData[i], FieldAliases[f]) = Str(jsonData[i][p].k)

\* a row whose price header is " SELLING PRICE " has created a record with
\* the price of its cell, and so has a row whose header is "price"
C17_Witness ==
  \E k \in CreateIndexes :
    /\ jsonData[log[k].row][2].k = Pad(MaxPad) \o Capitals(SellingPriceAliases[1]) \o Pad(MaxPad)
    /\ jsonData[log[k].row][2].v = Str(<<"5">>)
    /\ log[k].after.sellingPrice = 5 * Scale

\* C18: for each field the value used is the cell under the header matched by
\* the earliest alias of the field's list that matches a header of the row;
\* when no alias of the field matches a header, the field is absent, whatever
\* other headers the row has.
C18_EarliestAlias ==
  \A i \in 1..Len(jsonData) :
    \A f \in 1..Len(FieldAliases) :
      LET row == jsonData[i]
          matched == {a \in 1..Len(FieldAliases[f]) : HeadersOf(row, FieldAliases[f][a]) # {}}
      IN IF matched = {} THEN Cell(row, FieldAliases[f]) = Undefined
         ELSE LET a == CHOOSE x \in matched : \A y \in matched : x <= y
                  ps == HeadersOf(row, FieldAliases[f][a])
                  p == CHOOSE x \in ps : \A y \in ps : x <= y
              IN Cell(row, FieldAliases[f]) = row[p].v

\* a row with a "PRICE" cell 7 before a "selling price" cell 5 has created a
\* record with price 5
C18_Witness ==
  \E k \in CreateIndexes :
    LET row == jsonData[log[k].row]
    IN /\ Len(row) = 3
       /\ row[2].k = Capitals(SellingPriceAliases[2]) /\ row[2].v = Str(<<"7">>)
       /\ row[3].k = SellingPriceAliases[1] /\ row[3].v = Str(<<"5">>)
       /\ log[k].after.sellingPrice = 5 * Scale

\* C19: the lookup of a row returns a record of the store whose itemName is
\* exactly the row's name, or none when no record has exactly that name (a
\* name that differs in case only is another item, and the row creates a
\* record); the write of a row changes one record only: the update the record
\* the lookup returned, the create none but the new one.
C19_ExactLookupOneRecord ==
  [][/\ (pc = "lookup" /\ pc' = "write") =>
          LET name == String(itemNameOf(jsonData[idx]))
          IN /\ store' = store
             /\ existingItem'.id # 0 =>
                  (existingItem' \in store /\ existingItem'.itemName = name)
             /\ existingItem'.id = 0 => \A r \in store : r.itemName # name
     /\ (pc = "write" /\ log' # log /\ existingItem.id # 0) =>
          /\ \A r \in store : r.id # existingItem.id => r \in store'
          /\ \A r \in store' : r \notin store => r.id = existingItem.id
          /\ Cardinality(store') = Cardinality(store)
     /\ (pc = "write" /\ log' # log /\ existingItem.id = 0) =>
          /\ store \subseteq store'
          /\ Cardinality(store' \ store) = 1
          /\ \A r \in store' \ store : r.itemName = String(itemNameOf(jsonData[idx]))
    ]_vars

\* the row named "a" was looked up while the store held "A": nothing was
\* found, and the store now holds "A" as it was and a new record "a"
C19_Witness ==
  \E k \in CreateIndexes :
    /\ log[k].after.itemName = NameLowerA
    /\ Record1 \in store
    /\ \E r \in store : r.id = log[k].id /\ r.itemName = NameLowerA

WriteIndexes == {k \in LogIndexes : IsWrite(log[k])}

C21_ImportFrame ==
  [][pc' # pc =>
       /\ \A r \in store : \E q \in store' : q.id = r.id /\ q.itemName = r.itemName
       /\ \A r \in store :
            r \notin store' =>
              /\ pc = "write"
              /\ r.id = existingItem.id
              /\ existingItem.itemName = String(itemNameOf(jsonData[idx]))
    ]_vars

\* a row has changed the fields of record 1, which keeps its id and name, and
\* record 2, whose name is in no row of the sheet, is as it was
C21_Witness ==
  /\ pc = "done" /\ response.kind = "ok"
  /\ \A i \in 1..Len(jsonData) : String(itemNameOf(jsonData[i])) = NameA
  /\ Record2 \in store
  /\ Record1 \notin store
  /\ \E r \in store : r.id = 1 /\ r.itemName = NameA
  /\ Cardinality(store) = 2

\* no two records of the store have the same itemName
UniqueNames(st) == \A r, q \in st : r.itemName = q.itemName => r = q

\* the second import of the sheet has been answered
SecondDone == Len(starts) = 2 /\ pc = "done" /\ response.kind = "ok"

\* C22 as stated: for any initial store and any file, after the second of
\* two imports of the file in succession the store is as the first left it.
C22_SecondImportNoChange ==
  SecondDone => store = starts[2]

\* C22, amended: when no two records of the initial store share an item
\* name, after the second of two imports of the file in succession the store
\* is as the first left it.
C22_SecondImportNoChangeUnique ==
  (SecondDone /\ UniqueNames(starts[1])) => store = starts[2]

\* a sheet with two rows for the same new name has been imported twice: the
\* first import created one record, and the second left the store as it was
C22_Witness ==
  /\ SecondDone
  /\ UniqueNames(starts[1])
  /\ Len(jsonData) = 2
  /\ String(itemNameOf(jsonData[1])) = String(itemNameOf(jsonData[2]))
  /\ Cardinality(starts[2]) = Cardinality(starts[1]) + 1
  /\ store = starts[2]

\* C23: with no other writer, when no two records share an itemName before
\* the import none do while it runs or after it, also when several rows of
\* the file have the same item name.
C23_NamesStayUnique ==
  (Len(starts) >= 1 /\ UniqueNames(starts[1])) => UniqueNames(store)

\* a sheet with two rows for the same new name has been imported once: the
\* first row created the record, the second updated it, and the names of the
\* store are unique
C23_Witness ==
  /\ Len(starts) = 1 /\ UniqueNames(starts[1])
  /\ pc = "done" /\ response.kind = "ok" /\ response.count = 2
  /\ Len(log) = 4
  /\ log[2].op = "create" /\ log[4].op = "update" /\ log[4].id = log[2].id
  /\ Cardinality(store) = Cardinality(starts[1]) + 1
  /\ UniqueNames(store)

\* the record the row's lookup returned is no longer in the store
FoundIsGone == pc = "write" /\ existingItem.id # 0 /\ ~HasId(store, existingItem.id)

\* C24: when the record a row's lookup found has been deleted before the
\* row's update, the next step of the import is the failure of that update:
\* the import is over with a 500 error response, the store is left as it is
\* (the record is not created again, the writes of the earlier rows stay) and
\* no store call is added; an import that is over takes no further step.
C24_DeletedBeforeUpdate ==
  /\ [][(FoundIsGone /\ pc' # pc) =>
          /\ pc' = "done"
          /\ response'.kind = "error" /\ response'.status = 500
          /\ store' = store /\ nextId' = nextId
          /\ log' = log /\ count' = count /\ idx' = idx]_vars
  /\ [][pc = "done" => (pc' = "done" /\ log' = log /\ response' = response)]_vars

\* the first row updated record 1, the lookup of the second row found it, a
\* DELETE removed it, and the import ended with 500 at the second row
C24_Witness ==
  /\ pc = "done" /\ response.kind = "error" /\ response.status = 500
  /\ idx = 2 /\ count = 1 /\ Len(log) = 3
  /\ log[2].op = "update" /\ log[2].id = 1
  /\ log[3].op = "find" /\ log[3].found.id = 1
  /\ existingItem.id = 1 /\ ~HasId(store, 1)
  /\ apiStatus = 200

\* ------------------------------------------------------------------------
\* The inventory page (src/app/page.tsx): filtering and sorting
\* ------------------------------------------------------------------------

\* A cached item is a record of the store as JSON (NextResponse.json): its
\* expiryDate is null or the string Date.prototype.toISOString gives.
ItemJson(record) ==
  [record EXCEPT !.expiryDate =
     IF record.expiryDate = Null THEN Null ELSE Str(toISOString(record.expiryDate.n))]

JsonList(list) == [i \in 1..Len(list) |-> ItemJson(list[i])]

\* the UTF-16 code unit of a character
CharCode(c) ==
  CASE IsDigit(c) -> 48 + DigitVal(c)
    [] IsUpper(c) -> 64 + (CHOOSE i \in 1..26 : UpperChars[i] = c)
    [] c \in {LowerChars[i] : i \in 1..26} -> 96 + (CHOOSE i \in 1..26 : LowerChars[i] = c)
    [] c = " " -> 32
    [] c = "-" -> 45
    [] c = "." -> 46
    [] c = ":" -> 58

\* a < b on strings: by code units, a proper prefix first
RECURSIVE StringLess(_, _)
StringLess(a, b) ==
  IF b = <<>> THEN FALSE
  ELSE IF a = <<>> THEN TRUE
  ELSE IF Head(a) = Head(b) THEN StringLess(Tail(a), Tail(b))
  ELSE CharCode(Head(a)) < CharCode(Head(b))

\* String.prototype.includes
includes(str, sub) ==
  \E i \in 0..(Len(str) - Len(sub)) : SubSeq(str, i + 1, i + Len(sub)) = sub

\* the column keys of the clickable headers (lines 808-821)
SortKeys == {"itemName", "sellingPrice", "currentQuantity", "expiryDate", "status"}

\* item[key]
Field(item, key) ==
  CASE key = "itemName" -> Str(item.itemName)
    [] key = "sellingPrice" -> Num(item.sellingPrice)
    [] key = "currentQuantity" -> Num(item.currentQuantity * Scale)
    [] key = "expiryDate" -> item.expiryDate
    [] key = "status" -> Str(item.status)

\* a < b on two numbers or two strings
LessThan(a, b) ==
  CASE a.t = "number" -> a.n < b.n
    [] a.t = "string" -> StringLess(a.s, b.s)

\* filteredItems (lines 259-270)
matchesSearch(item) ==
  LET normalizedSearch == toLowerCase(trim(debouncedSearch))
  IN Len(normalizedSearch) = 0 \/ includes(toLowerCase(item.itemName), normalizedSearch)

matchesStatus(item) ==
  statusFilter = AllStatuses \/ toLowerCase(item.status) = toLowerCase(statusFilter)

filteredItems == SelectSeq(items, LAMBDA item : matchesSearch(item) /\ matchesStatus(item))

\* a comparator that reverses the whole ascending order for descending, the
\* place of the null values included
compareItems_NullsByDirection(a, b, config) ==
  LET aValue == Field(a, config.key)
      bValue == Field(b, config.key)
      ascending ==
        IF aValue = bValue THEN 0
        ELSE IF aValue = Null THEN 1
        ELSE IF bValue = Null THEN -1
        ELSE IF LessThan(aValue, bValue) THEN -1 ELSE 1
  IN IF config.direction = "asc" THEN ascending ELSE 0 - ascending

\* the comparator of sortedItems (lines 658-670): negative when a goes first
compareItems(a, b, config) ==
  LET aValue == Field(a, config.key)
      bValue == Field(b, config.key)
  IN IF aValue = bValue THEN 0
     ELSE IF aValue = Null THEN 1
     ELSE IF bValue = Null THEN -1
     ELSE IF config.direction = "asc"
       THEN (IF LessThan(aValue, bValue) THEN -1 ELSE 1)
       ELSE (IF LessThan(bValue, aValue) THEN -1 ELSE 1)

\* Array.prototype.sort with this comparator: the sort is stable, so it is
\* the insertion of each element after the elements that do not go after it
RECURSIVE InsertInOrder(_, _, _)
InsertInOrder(sorted, x, config) ==
  IF sorted = <<>> THEN <<x>>
  ELSE IF compareItems(x, Head(sorted), config) < 0 THEN <<x>> \o sorted
  ELSE <<Head(sorted)>> \o InsertInOrder(Tail(sorted), x, config)

RECURSIVE sort(_, _)
sort(list, config) ==
  IF list = <<>> THEN <<>>
  ELSE InsertInOrder(sort(SubSeq(list, 1, Len(list) - 1), config), list[Len(list)], config)

\* sortedItems (lines 655-672)
sortedItems == IF sortConfig = Null THEN filteredItems ELSE sort(filteredItems, sortConfig)

\* a header that only toggles between ascending and descending
handleSort_TwoWay(key) ==
  /\ ~pageEffect
  /\ sortConfig' =
       IF sortConfig = Null \/ sortConfig.key # key \/ sortConfig.direction = "desc"
         THEN [key |-> key, direction |-> "asc"]
         ELSE [key |-> key, direction |-> "desc"]
  /\ event' = Event("handleSort", key, 0)
  /\ UNCHANGED <<search, debouncedSearch, statusFilter, currentPage, pageEffect>>
  /\ UNCHANGED <<items, selectedItems>>
  /\ UNCHANGED serverVars
  /\ UNCHANGED <<cellVars, bulkVars>>

\* handleSort (lines 630-640), run by a click on the header of column key
handleSort(key) ==
  /\ ~pageEffect
  /\ sortConfig' =
       IF sortConfig = Null \/ sortConfig.key # key
         THEN [key |-> key, direction |-> "asc"]
         ELSE IF sortConfig.direction = "asc"
           THEN [key |-> key, direction |-> "desc"]
           ELSE Null
  /\ event' = Event("handleSort", key, 0)
  /\ UNCHANGED <<search, debouncedSearch, statusFilter, currentPage, pageEffect>>
  /\ UNCHANGED <<items, selectedItems>>
  /\ UNCHANGED serverVars
  /\ UNCHANGED <<cellVars, bulkVars>>

\* the options of the status filter
FilterOptions == {AllStatuses, <<"n","e","w">>, <<"c","h","e","c","k","e","d">>}

\* setStatusFilter, run by a choice in the status filter; the render that
\* follows a change leaves the effect of lines 242-244 pending
setStatusFilter(option) ==
  /\ ~pageEffect
  /\ statusFilter' = option
  /\ pageEffect' = (option # statusFilter)
  /\ event' = Event("setStatusFilter", "", 0)
  /\ UNCHANGED <<search, debouncedSearch, sortConfig, currentPage>>
  /\ UNCHANGED <<items, selectedItems>>
  /\ UNCHANGED serverVars
  /\ UNCHANGED <<cellVars, bulkVars>>

\* the effect of lines 242-244: setCurrentPage(1)
PageResetEffect ==
  /\ pageEffect
  /\ pageEffect' = FALSE
  /\ currentPage' = 1
  /\ event' = Event("PageResetEffect", "", 0)
  /\ UNCHANGED <<search, debouncedSearch, statusFilter, sortConfig>>
  /\ UNCHANGED <<items, selectedItems>>
  /\ UNCHANGED serverVars
  /\ UNCHANGED <<cellVars, bulkVars>>

\* the records of the sorted lists: a null and two equal expiry dates, equal
\* prices and quantities, names that differ by case and by a prefix
SortItem3 ==
  [id |-> 3, itemName |-> NameLowerA, sellingPrice |-> 500, currentQuantity |-> 7,
   unitType |-> Null, expiryDate |-> Null, status |-> <<"N","e","w">>]

SortItem4 ==
  [id |-> 4, itemName |-> <<"A","B">>, sellingPrice |-> 1999, currentQuantity |-> 0,
   unitType |-> Null,
   expiryDate |-> DateFromString(<<"2","0","2","4","-","1","2","-","3","1">>),
   status |-> <<"n","o","t"," ","y","e","t">>]

SortItem5 ==
  [id |-> 5, itemName |-> NameA, sellingPrice |-> 150, currentQuantity |-> 120,
   unitType |-> Null,
   expiryDate |-> DateFromString(<<"2","0","2","5","-","0","1","-","0","1">>),
   status |-> <<"c","h","e","c","k","e","d">>]

SortItems == {Record1, Record2, SortItem3, SortItem4, SortItem5}

\* the most items of a sorted list
MaxItems == 3

\* the fetched lists: up to MaxItems items, no id twice
SortLists ==
  {list \in SeqsUpTo(SortItems, MaxItems) :
     \A i, j \in 1..Len(list) : i # j => list[i].id # list[j].id}

\* the page with a list of SortLists fetched, the server at rest
InitSort ==
  /\ \E list \in SortLists :
       /\ store = {list[i] : i \in 1..Len(list)}
       /\ items = JsonList(list)
  /\ nextId = 6
  /\ ServerAtRest
  /\ ViewMounted
  /\ NoCell
  /\ BulkIdle

NextSort ==
  \/ \E key \in SortKeys : handleSort(key)
  \/ \E option \in FilterOptions : setStatusFilter(option)
  \/ PageResetEffect

SpecSort == InitSort /\ [][NextSort]_vars

\* C25: a click on the header of the sort column takes the sort from
\* ascending to descending and from descending to unset; a click on any
\* other header, also when the sort is unset, makes that column the sort
\* key, ascending; the sort is unset or has one column of the table as
\* its key.
C25_SortCycle ==
  /\ [](sortConfig = Null
        \/ (sortConfig.key \in SortKeys /\ sortConfig.direction \in {"asc", "desc"}))
  /\ [][event'.name = "handleSort" /\ sortConfig' # sortConfig =>
          IF sortConfig # Null /\ sortConfig.key = event'.key
            THEN IF sortConfig.direction = "asc"
                   THEN sortConfig' = [key |-> event'.key, direction |-> "desc"]
                   ELSE sortConfig' = Null
            ELSE sortConfig' = [key |-> event'.key, direction |-> "asc"]]_vars
  /\ [][event'.name = "handleSort" => sortConfig' # sortConfig]_vars

\* the price column was clicked a third time: the sort is unset again
C25_Witness ==
  /\ event = Event("handleSort", "sellingPrice", 0)
  /\ sortConfig = Null
  /\ Len(items) = MaxItems

IsNullAt(list, i) == Field(list[i], sortConfig.key) = Null

\* C26: with a sort set, no item whose value under the sort key is null
\* comes before an item whose value is not, and of two items with non-null
\* values the later one's value is not less (ascending) or not greater
\* (descending) than the earlier one's; the sorted list has the items of
\* the filtered list, each once; with the sort unset it is the filtered list.
C26_SortedList ==
  LET sorted == sortedItems
      filtered == filteredItems
  IN /\ Len(sorted) = Len(filtered)
     /\ \A i \in 1..Len(filtered) :
          Cardinality({j \in 1..Len(sorted) : sorted[j] = filtered[i]}) = 1
     /\ sortConfig = Null => sorted = filtered
     /\ sortConfig # Null =>
          \A i, j \in 1..Len(sorted) :
            i < j =>
              /\ ~(IsNullAt(sorted, i) /\ ~IsNullAt(sorted, j))
              /\ (~IsNullAt(sorted, i) /\ ~IsNullAt(sorted, j)) =>
                   IF sortConfig.direction = "asc"
                     THEN ~LessThan(Field(sorted[j], sortConfig.key),
                                    Field(sorted[i], sortConfig.key))
                     ELSE ~LessThan(Field(sorted[i], sortConfig.key),
                                    Field(sorted[j], sortConfig.key))

\* sorted by expiry date, descending, a list with a null date first and two
\* dated items after it
C26_Witness ==
  /\ sortConfig = [key |-> "expiryDate", direction |-> "desc"]
  /\ Len(filteredItems) = 3
  /\ filteredItems[1].expiryDate = Null
  /\ filteredItems[2].expiryDate # Null
  /\ filteredItems[3].expiryDate # Null
  /\ StringLess(filteredItems[2].expiryDate.s, filteredItems[3].expiryDate.s)

\* ------------------------------------------------------------------------
\* The inventory page: pagination, selection and deletion
\* ------------------------------------------------------------------------

itemsPerPage == 50

Min(a, b) == IF a < b THEN a ELSE b

Max(a, b) == IF a > b THEN a ELSE b

\* totalPages (line 674): Math.ceil(sortedItems.length / itemsPerPage)
totalPages == (Len(sortedItems) + itemsPerPage - 1) \div itemsPerPage

\* Array.prototype.slice(from, to) with 0 <= from <= to
slice(list, from, to) ==
  IF from >= Len(list) THEN <<>> ELSE SubSeq(list, from + 1, Min(to, Len(list)))

\* paginatedItems (lines 676-683)
paginatedItems ==
  slice(sortedItems, (currentPage - 1) * itemsPerPage, currentPage * itemsPerPage)

\* the ids of the rows shown
PageIds == {paginatedItems[i].id : i \in 1..Len(paginatedItems)}

\* the Previous button (lines 904-912)
PreviousPage ==
  /\ ~pageEffect
  /\ currentPage # 1
  /\ currentPage' = Max(currentPage - 1, 1)
  /\ event' = Event("PreviousPage", "", 0)
  /\ UNCHANGED <<search, debouncedSearch, statusFilter, sortConfig, pageEffect>>
  /\ UNCHANGED <<items, selectedItems>>
  /\ UNCHANGED serverVars
  /\ UNCHANGED <<cellVars, bulkVars>>

\* the Next button (lines 916-924)
NextPage ==
  /\ ~pageEffect
  /\ ~(currentPage = totalPages \/ totalPages = 0)
  /\ currentPage' = Min(currentPage + 1, totalPages)
  /\ event' = Event("NextPage", "", 0)
  /\ UNCHANGED <<search, debouncedSearch, statusFilter, sortConfig, pageEffect>>
  /\ UNCHANGED <<items, selectedItems>>
  /\ UNCHANGED serverVars
  /\ UNCHANGED <<cellVars, bulkVars>>

\* setSearch (line 770): typing in the search box
setSearch(text) ==
  /\ ~pageEffect
  /\ search' = text
  /\ event' = Event("setSearch", "", 0)
  /\ UNCHANGED <<debouncedSearch, statusFilter, sortConfig, currentPage, pageEffect>>
  /\ UNCHANGED <<items, selectedItems>>
  /\ UNCHANGED serverVars
  /\ UNCHANGED <<cellVars, bulkVars>>

\* the timer of lines 232-240 fires: setDebouncedSearch(search); the render
\* that follows leaves the effect of lines 242-244 pending
DebounceFires ==
  /\ ~pageEffect
  /\ search # debouncedSearch
  /\ debouncedSearch' = search
  /\ pageEffect' = TRUE
  /\ event' = Event("DebounceFires", "", 0)
  /\ UNCHANGED <<search, statusFilter, sortConfig, currentPage>>
  /\ UNCHANGED <<items, selectedItems>>
  /\ UNCHANGED serverVars
  /\ UNCHANGED <<cellVars, bulkVars>>

\* toggleSelection (lines 517-525), run by the checkbox of a row shown
toggleSelection(id) ==
  /\ ~pageEffect
  /\ id \in PageIds
  /\ selectedItems' =
       IF id \in selectedItems THEN selectedItems \ {id} ELSE selectedItems \cup {id}
  /\ event' = Event("toggleSelection", "", id)
  /\ UNCHANGED <<items, viewVars>>
  /\ UNCHANGED serverVars
  /\ UNCHANGED <<cellVars, bulkVars>>

\* the header checkbox is shown checked (lines 800-803)
HeaderChecked ==
  Len(paginatedItems) > 0 /\ \A i \in 1..Len(paginatedItems) : paginatedItems[i].id \in selectedItems

\* toggleAll (lines 530-538), run by the header checkbox
toggleAll ==
  /\ ~pageEffect
  /\ selectedItems' =
       IF Cardinality(selectedItems) = Len(paginatedItems) /\ Len(paginatedItems) > 0
         THEN {}
         ELSE PageIds
  /\ event' = Event("toggleAll", "", 0)
  /\ UNCHANGED <<items, viewVars>>
  /\ UNCHANGED serverVars
  /\ UNCHANGED <<cellVars, bulkVars>>

\* removeCachedItems (lines 348-356)
removeCachedItems(list, ids) == SelectSeq(list, LAMBDA it : it.id \notin ids)

\* handleDelete (lines 555-576), confirmed in the dialog of a row shown: the
\* DELETE of /api/inventory/[id] answers 500 when the record is gone
handleDelete(id) ==
  /\ ~pageEffect
  /\ id \in PageIds
  /\ IF HasId(store, id)
       THEN /\ store' = {r \in store : r.id # id}
            /\ items' = removeCachedItems(items, {id})
            /\ selectedItems' = selectedItems \ {id}
       ELSE UNCHANGED <<store, items, selectedItems>>
  /\ event' = Event("handleDelete", "", id)
  /\ UNCHANGED viewVars
  /\ UNCHANGED <<nextId, importVars, apiStatus, extOps>>
  /\ UNCHANGED <<cellVars, bulkVars>>

\* handleBulkDelete (lines 593-614), confirmed in the dialog of the Delete
\* Selected button; DELETE /api/inventory deletes the records with these ids
handleBulkDelete ==
  /\ ~pageEffect
  /\ selectedItems # {}
  /\ store' = {r \in store : r.id \notin selectedItems}
  /\ items' = removeCachedItems(items, selectedItems)
  /\ selectedItems' = {}
  /\ event' = Event("handleBulkDelete", "", 0)
  /\ UNCHANGED viewVars
  /\ UNCHANGED <<nextId, importVars, apiStatus, extOps>>
  /\ UNCHANGED <<cellVars, bulkVars>>

\* the records of the store as GET /api/inventory lists them
RECURSIVE ListOf(_)
ListOf(st) ==
  IF st = {} THEN <<>>
  ELSE LET first == CHOOSE r \in st : \A q \in st : r.id <= q.id
       IN <<ItemJson(first)>> \o ListOf(st \ {first})

\* refetch (line 752): the cache is replaced by the list the server returns
Refetch ==
  /\ ~pageEffect
  /\ items' = ListOf(store)
  /\ event' = Event("Refetch", "", 0)
  /\ UNCHANGED <<viewVars, selectedItems>>
  /\ UNCHANGED serverVars
  /\ UNCHANGED <<cellVars, bulkVars>>

\* the records of the two-page list: one more than a page holds, the last
\* one with a status and the first one with a name of its own
PageItem(i) ==
  [id |-> i, itemName |-> IF i = 1 THEN NameB ELSE NameA, sellingPrice |-> 500,
   currentQuantity |-> i, unitType |-> Null, expiryDate |-> Null,
   status |-> IF i > itemsPerPage THEN <<"c","h","e","c","k","e","d">> ELSE <<"n","e","w">>]

PageStore == {PageItem(i) : i \in 1..(itemsPerPage + 1)}

\* the rows whose checkbox and delete button are used, the records another
\* client deletes, and the texts typed in the search box
ClickedIds == {1, itemsPerPage + 1}

SearchTexts == {<<>>, <<" ", "b">>}

\* the page with the list of PageStore fetched, the server at rest
InitPage ==
  /\ store = PageStore
  /\ items = ListOf(store)
  /\ nextId = itemsPerPage + 2
  /\ ServerAtRest
  /\ ViewMounted
  /\ NoCell
  /\ BulkIdle

NextPages ==
  \/ PreviousPage
  \/ NextPage
  \/ \E text \in SearchTexts : setSearch(text)
  \/ DebounceFires
  \/ \E option \in FilterOptions : setStatusFilter(option)
  \/ PageResetEffect
  \/ \E id \in ClickedIds : toggleSelection(id)
  \/ toggleAll
  \/ \E id \in ClickedIds : handleDelete(id)
  \/ handleBulkDelete
  \/ Refetch
  \/ \E itemId \in ClickedIds : ApiDelete(itemId) /\ UNCHANGED uiVars

SpecPage == InitPage /\ [][NextPages]_vars

CellId == 1

\* itemsById.get(id) (line 272)
IsCached(id) == \E i \in 1..Len(items) : items[i].id = id

CachedItem(id) == items[CHOOSE i \in 1..Len(items) : items[i].id = id]

\* the currentQuantity prop of the cell (line 861)
CellQuantity == CachedItem(CellId).currentQuantity

\* currentQuantity.toString()
QuantityText(quantity) == NumberToString(quantity * Scale)

\* JSON.stringify({...item}) as the item routes read it
ItemBody(item) ==
  [itemName |-> Str(item.itemName), sellingPrice |-> Num(item.sellingPrice),
   currentQuantity |-> Num(item.currentQuantity * Scale), unitType |-> item.unitType,
   expiryDate |-> item.expiryDate, status |-> Str(item.status)]

\* updateCachedItem (lines 338-346)
updateCachedItem(list, updated) ==
  [i \in 1..Len(list) |-> IF list[i].id = updated.id THEN updated ELSE list[i]]

\* handleBlur (lines 134-145) reaches onUpdate when the text is text
Commits(text) ==
  /\ trim(text) # <<>>
  /\ parseInt(text).t = "number"
  /\ parseInt(text).n # CellQuantity * Scale

\* onUpdate(itemId, newQty), that is handleQuickUpdate up to its fetch
\* (lines 393-404): nothing is sent for an item that is not cached
onUpdate(text) ==
  IF IsCached(CellId)
    THEN Append(updates,
           [id |-> CellId, quantity |-> parseInt(text).n \div Scale,
            body |-> [ItemBody(CachedItem(CellId)) EXCEPT !.currentQuantity = parseInt(text)]])
    ELSE updates

\* the most onUpdate calls followed
MaxUpdates == 2

\* a click into the cell
CellFocus ==
  /\ ~focused
  /\ Len(updates) < MaxUpdates
  /\ focused' = TRUE
  /\ event' = Event("CellFocus", "", CellId)
  /\ UNCHANGED <<value, updates, resolved>>
  /\ UNCHANGED <<items, viewVars, selectedItems, bulkVars>>
  /\ UNCHANGED serverVars

\* onChange (line 160): setValue(e.target.value)
CellChange(text) ==
  /\ focused
  /\ value' = text
  /\ event' = Event("CellChange", "", CellId)
  /\ UNCHANGED <<focused, updates, resolved>>
  /\ UNCHANGED <<items, viewVars, selectedItems, bulkVars>>
  /\ UNCHANGED serverVars

\* handleBlur (lines 134-145), run when the cell loses the focus
CellBlur ==
  /\ focused
  /\ focused' = FALSE
  /\ IF Commits(value)
       THEN updates' = onUpdate(value) /\ value' = value
       ELSE updates' = updates /\ value' = QuantityText(CellQuantity)
  /\ event' = Event("CellBlur", "", CellId)
  /\ UNCHANGED resolved
  /\ UNCHANGED <<items, viewVars, selectedItems, bulkVars>>
  /\ UNCHANGED serverVars

\* handleKeyDown with Enter (lines 148-150): blur() runs handleBlur
CellEnter ==
  /\ focused
  /\ focused' = FALSE
  /\ IF Commits(value)
       THEN updates' = onUpdate(value) /\ value' = value
       ELSE updates' = updates /\ value' = QuantityText(CellQuantity)
  /\ event' = Event("CellEnter", "", CellId)
  /\ UNCHANGED resolved
  /\ UNCHANGED <<items, viewVars, selectedItems, bulkVars>>
  /\ UNCHANGED serverVars

\* handleKeyDown with Escape (lines 151-154): setValue(currentQuantity) is
\* queued, then blur() runs handleBlur, synchronously and before the next
\* render, so with the value of the last render: the text typed
CellEscape ==
  /\ focused
  /\ focused' = FALSE
  /\ updates' = IF Commits(value) THEN onUpdate(value) ELSE updates
  /\ value' = QuantityText(CellQuantity)
  /\ event' = Event("CellEscape", "", CellId)
  /\ UNCHANGED resolved
  /\ UNCHANGED <<items, viewVars, selectedItems, bulkVars>>
  /\ UNCHANGED serverVars

\* the rest of handleQuickUpdate (lines 398-417) for the oldest call not
\* yet answered: the PUT is served, a 200 replaces the cached item, and the
\* effect of lines 129-132 shows a changed quantity in the cell
QuickUpdateResolves ==
  /\ resolved < Len(updates)
  /\ resolved' = resolved + 1
  /\ LET call == updates[resolved + 1]
     IN /\ IF HasId(store, call.id) /\ ApiUpdateAccepted(call.body)
             THEN LET updated == ApiUpdateData(call.body, Stored(store, call.id))
                  IN /\ store' = {IF r.id = call.id THEN updated ELSE r : r \in store}
                     /\ items' = updateCachedItem(items, ItemJson(updated))
                     /\ value' = IF call.id = CellId /\ updated.currentQuantity # CellQuantity
                                   THEN QuantityText(updated.currentQuantity)
                                   ELSE value
             ELSE UNCHANGED <<store, items, value>>
        /\ event' = Event("handleQuickUpdate", "", call.id)
  /\ UNCHANGED <<focused, updates>>
  /\ UNCHANGED <<viewVars, selectedItems, bulkVars>>
  /\ UNCHANGED <<nextId, importVars, apiStatus, extOps>>

\* the texts typed into the cell: empty, blank, a new quantity, the quantity
\* record 1 has, no number, and a number with a fraction
CellTexts ==
  {<<>>, <<" ">>, <<"1","2">>, <<"5","0">>, <<"a","b","c">>, <<"7",".","5">>}

\* the page with records 1 and 2 fetched and the cell of record 1 rendered
InitCell ==
  /\ store = {Record1, Record2}
  /\ items = ListOf(store)
  /\ nextId = FirstFreeId
  /\ ServerAtRest
  /\ ViewMounted
  /\ value = QuantityText(Record1.currentQuantity)
  /\ focused = FALSE
  /\ updates = <<>>
  /\ resolved = 0
  /\ BulkIdle

NextCell ==
  \/ CellFocus
  \/ \E text \in CellTexts : CellChange(text)
  \/ CellBlur
  \/ CellEnter
  \/ CellEscape
  \/ QuickUpdateResolves
  \/ ApiDelete(CellId) /\ UNCHANGED uiVars

SpecCell == InitCell /\ [][NextCell]_vars

setBulkStatus(option) ==
  /\ selectedItems # {}
  /\ bulkStatus' = option
  /\ event' = Event("setBulkStatus", "", 0)
  /\ UNCHANGED <<isBulkStatusUpdating, bulkAwaiting, bulkIds, bulkPending, bulkResponses>>
  /\ UNCHANGED <<items, viewVars, selectedItems, cellVars>>
  /\ UNCHANGED serverVars

\* the PUT of handleBulkStatusUpdate for a selected id (lines 459-469)
BulkPut(id) ==
  [id |-> id, live |-> TRUE,
   body |-> [ItemBody(CachedItem(id)) EXCEPT !.status = Str(bulkStatus)]]

\* handleBulkStatusUpdate up to its await (lines 449-469), run by the Apply
\* Status button: one PUT for each selected id that is cached
handleBulkStatusUpdate ==
  /\ selectedItems # {}
  /\ ~isBulkStatusUpdating
  /\ bulkStatus # <<>>
  /\ isBulkStatusUpdating' = TRUE
  /\ bulkAwaiting' = TRUE
  /\ bulkIds' = selectedItems
  /\ bulkPending' = bulkPending \cup {BulkPut(id) : id \in {s \in selectedItems : IsCached(s)}}
  /\ bulkResponses' = {}
  /\ event' = Event("handleBulkStatusUpdate", "", 0)
  /\ UNCHANGED bulkStatus
  /\ UNCHANGED <<items, viewVars, selectedItems, cellVars>>
  /\ UNCHANGED serverVars

\* a PUT whose response is added to the cache as it arrives
BulkPutServed_CacheEach(request) ==
  /\ request \in bulkPending
  /\ IF HasId(store, request.id) /\ ApiUpdateAccepted(request.body)
       THEN LET updated == ApiUpdateData(request.body, Stored(store, request.id))
            IN /\ store' = {IF r.id = request.id THEN updated ELSE r : r \in store}
               /\ bulkPending' = bulkPending \ {request}
               /\ bulkResponses' =
                    IF request.live THEN bulkResponses \cup {ItemJson(updated)}
                    ELSE bulkResponses
               /\ items' = IF request.live THEN updateCachedItem(items, ItemJson(updated))
                           ELSE items
               /\ UNCHANGED <<isBulkStatusUpdating, bulkAwaiting>>
       ELSE /\ store' = store
            /\ items' = items
            /\ bulkPending' = {[r EXCEPT !.live = r.live /\ ~request.live] : r \in bulkPending \ {request}}
            /\ bulkResponses' = IF request.live THEN {} ELSE bulkResponses
            /\ isBulkStatusUpdating' = (isBulkStatusUpdating /\ ~request.live)
            /\ bulkAwaiting' = (bulkAwaiting /\ ~request.live)
  /\ event' = Event("BulkPutServed", "", request.id)
  /\ UNCHANGED <<bulkStatus, bulkIds>>
  /\ UNCHANGED <<viewVars, selectedItems, cellVars>>
  /\ UNCHANGED <<nextId, importVars, apiStatus, extOps>>

\* one PUT of the bulk status update is served (part_001 lines 12-36) and
\* answered (lines 470-471). A 200 is kept for Promise.all; any other
\* answer rejects Promise.all at once, and the handler goes through catch
\* and finally (lines 480-484) while its other PUTs are still on their way:
\* they are served later and their answers are dropped (live is FALSE).
BulkPutServed(request) ==
  /\ request \in bulkPending
  /\ IF HasId(store, request.id) /\ ApiUpdateAccepted(request.body)
       THEN LET updated == ApiUpdateData(request.body, Stored(store, request.id))
            IN /\ store' = {IF r.id = request.id THEN updated ELSE r : r \in store}
               /\ bulkPending' = bulkPending \ {request}
               /\ bulkResponses' =
                    IF request.live THEN bulkResponses \cup {ItemJson(updated)}
                    ELSE bulkResponses
               /\ UNCHANGED <<isBulkStatusUpdating, bulkAwaiting>>
       ELSE /\ store' = store
            /\ bulkPending' = {[r EXCEPT !.live = r.live /\ ~request.live] : r \in bulkPending \ {request}}
            /\ bulkResponses' = IF request.live THEN {} ELSE bulkResponses
            /\ isBulkStatusUpdating' = (isBulkStatusUpdating /\ ~request.live)
            /\ bulkAwaiting' = (bulkAwaiting /\ ~request.live)
  /\ items' = items
  /\ event' = Event("BulkPutServed", "", request.id)
  /\ UNCHANGED <<bulkStatus, bulkIds>>
  /\ UNCHANGED <<viewVars, selectedItems, cellVars>>
  /\ UNCHANGED <<nextId, importVars, apiStatus, extOps>>

\* responses.forEach(updateCachedItem) (lines 474-476)
updateCachedItems(list, responses) ==
  [i \in 1..Len(list) |->
     IF \E u \in responses : u.id = list[i].id
       THEN CHOOSE u \in responses : u.id = list[i].id
       ELSE list[i]]

\* Promise.all resolves, every PUT answered 200: lines 474-479 and 483
BulkSettled ==
  /\ bulkAwaiting
  /\ \A r \in bulkPending : ~r.live
  /\ items' = updateCachedItems(items, bulkResponses)
  /\ selectedItems' = {}
  /\ bulkStatus' = <<>>
  /\ isBulkStatusUpdating' = FALSE
  /\ bulkAwaiting' = FALSE
  /\ event' = Event("BulkSettled", "", 0)
  /\ UNCHANGED <<bulkIds, bulkPending, bulkResponses>>
  /\ UNCHANGED <<viewVars, cellVars>>
  /\ UNCHANGED serverVars

\* the statuses chosen for the selection
BulkOptions == {<<"u","p","d","a","t","e","d">>, <<"n","e","w">>}

\* the page with records 1 and 2 fetched
InitBulk ==
  /\ store = {Record1, Record2}
  /\ items = ListOf(store)
  /\ nextId = FirstFreeId
  /\ ServerAtRest
  /\ ViewMounted
  /\ NoCell
  /\ BulkIdle

NextBulk ==
  \/ \E id \in 1..nextId : toggleSelection(id)
  \/ \E option \in BulkOptions : setBulkStatus(option)
  \/ handleBulkStatusUpdate
  \/ \E request \in bulkPending : BulkPutServed(request)
  \/ BulkSettled
  \/ \E id \in 1..nextId : handleDelete(id)
  \/ Refetch
  \/ \E itemId \in 1..nextId : ApiDelete(itemId) /\ UNCHANGED uiVars

SpecBulk == InitBulk /\ [][NextBulk]_vars

====
